---- MODULE Spec2Model ----
(***************************************************************************)
(* Verification model of MySupportImprover: mesh adjacency, overhang       *)
(* classification, region growing, placement and collision checking.       *)
(* Real-valued quantities are modelled exactly with integers: lengths in   *)
(* thousandths of a millimetre where the source uses decimal constants,    *)
(* angles through integer dot products and squared cosines.                *)
(***************************************************************************)
EXTENDS Integers, Sequences, FiniteSets, TLC

(***************************************************************************)
(* Bounds of the model                                                     *)
(***************************************************************************)
NumVerts == 5
MaxFaces == 3

\* face edge vectors have coordinates in -GridMax .. GridMax
GridMax == 1

\* collision test: mesh vertices have x in 0 .. SatGrid; at most SatMaxTris faces
SatGrid == 2
SatMaxTris == 2

\* automatic detection: at most MaxRegions regions, each with at most
\* MaxOtherFaces faces of the rest of the mesh near its footprint
MaxRegions == 3
MaxOtherFaces == 1

\* dangling vertex regions: DanglingNumVerts vertices at heights 0 .. MaxHeight,
\* at most DanglingMaxFaces faces
DanglingNumVerts == 4
DanglingMaxFaces == 2
MaxHeight == 2

\* merging small regions: lists of at most MaxMergeRegions regions
MaxMergeRegions == 3

\* welding: raw arrays of at most MaxRawVertices vertices at coordinates 0 .. MaxCoord
MaxCoord == 6
MaxRawVertices == 5

\* region filters: at most MaxFilterRegions regions in a run
MaxFilterRegions == 2

\* merging edges: at most MaxEdges edges between points at 0 .. MaxEdgeCoord
MaxEdges == 3
MaxEdgeCoord == 5

\* column meshes: 1 .. MaxSides sides, heights 0 .. MaxColumnY
MaxSides == 8
MaxColumnY == 3

\* longest run of faces without an overhang before the first overhang face
MaxLead == 21

\* most strict overhang faces in a row
MaxStrict == 9

\* operations called on the tool in one run
MaxCalls == 4

\* left presses handled in one run
MaxClicks == 2

(***************************************************************************)
(* Generic helpers                                                         *)
(***************************************************************************)
Range(s) == {s[i] : i \in DOMAIN s}

InSeq(x, s) == \E i \in DOMAIN s : s[i] = x

Count(x, s) == Cardinality({i \in DOMAIN s : s[i] = x})

NoDup(s) == \A i, j \in DOMAIN s : i # j => s[i] # s[j]

Abs(x) == IF x < 0 THEN -x ELSE x

Min2(a, b) == IF a <= b THEN a ELSE b

Max2(a, b) == IF a >= b THEN a ELSE b

SetMin(S) == CHOOSE x \in S : \A y \in S : x <= y

SetMax(S) == CHOOSE x \in S : \A y \in S : x >= y

\* All orderings (sequences without repetition) of a finite set.
Perms(S) == {p \in [1..Cardinality(S) -> S] : \A i, j \in DOMAIN p : i # j => p[i] # p[j]}

\* The ascending sequence of a finite set of integers (numpy.where order).
RECURSIVE Ascending(_)
Ascending(S) == IF S = {} THEN << >>
                ELSE LET m == SetMin(S) IN <<m>> \o Ascending(S \ {m})

(***************************************************************************)
(* Mesh topology state                                                     *)
(*   indices   : the triangle index array, face id (0-based) -> triple     *)
(*   mask      : the overhang / candidate mask, as the set of face ids     *)
(*   op        : which operation has been applied to this input            *)
(*   adjacency : result of an adjacency builder (face id -> neighbour list)*)
(*   regions   : result of _findConnectedRegions (list of face lists)      *)
(*   seed      : seed face handed to the single-region BFS                 *)
(*   region    : result of the single-region BFS (list of faces)           *)
(***************************************************************************)
VARIABLES indices, mask, op, adjacency, regions, seed, region

topoVars == <<indices, mask, op, adjacency, regions, seed, region>>

(***************************************************************************)
(* Overhang classification state                                           *)
(*   edge1, edge2    : v1 - v0 and v2 - v0 of the face being classified    *)
(*   threshold_angle : the support angle in degrees                        *)
(*   classifier      : the classifier that produced the verdict            *)
(*   classifyStep    : "input", "classified" or "reclassified"             *)
(*   overhang        : its verdict for the face                            *)
(*   overhangFlipped : its verdict for the face with the normal negated    *)
(***************************************************************************)
VARIABLES edge1, edge2, threshold_angle, classifier, classifyStep, overhang, overhangFlipped

classifyVars ==
    <<edge1, edge2, threshold_angle, classifier, classifyStep, overhang, overhangFlipped>>

(***************************************************************************)
(* Collision test state                                                    *)
(*   obb            : the oriented box (center, extents, rotation)         *)
(*   mesh_triangles : the vertex positions of every face of the mesh       *)
(*   excluded_faces : the faces the test must ignore                       *)
(*   collision      : the verdict of check_obb_mesh_collision              *)
(*   satStep        : "input" or "checked"                                 *)
(***************************************************************************)
VARIABLES obb, mesh_triangles, excluded_faces, collision, satStep

satVars == <<obb, mesh_triangles, excluded_faces, collision, satStep>>

(***************************************************************************)
(* Automatic detection state (the region loop of _autoDetectOverhangs)     *)
(*   total_regions    : len(regions)                                       *)
(*   target_region_id : the clicked region, -1 for None                    *)
(*   dangling_vertex_regions_active : the regions come from dangling       *)
(*                      vertices, so the vertical-extent solver runs       *)
(*   region_id        : the next region of the loop                        *)
(*   current          : what the loop read and computed for the region it  *)
(*                      processed last                                     *)
(*   outcomes         : what happened to each region processed so far      *)
(*   blockers         : the regions that received a support blocker        *)
(*   created_count    : the loop's counter of created blockers             *)
(*   autoStep         : "loop" or "done"                                   *)
(***************************************************************************)
VARIABLES total_regions, target_region_id, dangling_vertex_regions_active, region_id,
          current, outcomes, blockers, created_count, autoStep

autoVars ==
    <<total_regions, target_region_id, dangling_vertex_regions_active, region_id,
      current, outcomes, blockers, created_count, autoStep>>

(***************************************************************************)
(* Tip column state (createCustomSupportMeshV2)                            *)
(*   source_mesh   : the faces of the selected model, in world space       *)
(*   tip_pos       : the lowest vertex of the tip region                   *)
(*   column_radius : the tool's _column_radius                             *)
(*   obstruction_y : what _find_obstruction_height returned                *)
(*   column        : the column added to the scene, if any                 *)
(*   placeStep     : "input" or "done"                                     *)
(***************************************************************************)
VARIABLES source_mesh, tip_pos, column_radius, obstruction_y, column, placeStep

placeVars == <<source_mesh, tip_pos, column_radius, obstruction_y, column, placeStep>>

(***************************************************************************)
(* Dangling vertex regions                                                 *)
(*   vertex_y         : the height of each vertex, in units of 0.005 mm    *)
(*   tri_indices      : the triangle index array                           *)
(*   min_drop         : the drop a neighbour needs to count as lower       *)
(*   min_face_y       : vertices at or below this height are not eligible  *)
(*   dangling_mask    : the vertices found to have no lower neighbour      *)
(*   dangling_regions : the list of regions returned (sets of vertices)    *)
(*   seed_region      : the region handed to the upward expansion          *)
(*   expanded         : the result of the upward expansion                 *)
(*   vertex_regions   : the regions handed to the merge or the conversion   *)
(*   min_vertices     : the size floor of the merge                        *)
(*   merged           : the list of regions returned by the merge          *)
(*   face_mask        : the candidate face mask, << >> for None            *)
(*   face_regions     : the strict face list of each vertex region         *)
(*   loose_regions    : the loose face list of each vertex region          *)
(*   combined         : the face regions returned by the conversion        *)
(*   danglingStep     : "input" or the operation applied                   *)
(***************************************************************************)
VARIABLES vertex_y, tri_indices, min_drop, min_face_y, dangling_mask, dangling_regions,
          seed_region, expanded,
          vertex_regions, min_vertices, merged,
          face_mask, face_regions, loose_regions, combined,
          danglingStep

danglingVars ==
    <<vertex_y, tri_indices, min_drop, min_face_y, dangling_mask, dangling_regions,
      seed_region, expanded,
      vertex_regions, min_vertices, merged,
      face_mask, face_regions, loose_regions, combined,
      danglingStep>>

(***************************************************************************)
(* Welding                                                                 *)
(*   raw_mesh  : the mesh data of a node: vertices, indices, has_indices   *)
(*   welded    : the vertices and indices the weld made of raw_mesh        *)
(*   rewelded  : the vertices and indices the weld made of welded          *)
(*   weldStep  : "input", "welded" or "rewelded"                           *)
(* A vertex is one coordinate, in units of half the weld tolerance.        *)
(***************************************************************************)
VARIABLES raw_mesh, welded, rewelded, weldStep

weldVars == <<raw_mesh, welded, rewelded, weldStep>>

(***************************************************************************)
(* Mesh cache                                                              *)
(*   node_mesh   : per node << >> (no mesh data) or <<m>>, m the MeshData  *)
(*                 object: its address id and its data                     *)
(*   mesh_cache  : self._mesh_cache: per node << >> or <<entry>>           *)
(*   called_node : the node of the last _getCachedMeshData call            *)
(*   reused      : whether that call returned the entry it found           *)
(*   cacheStep   : the last operation; "None" when the call returned None  *)
(***************************************************************************)
VARIABLES node_mesh, mesh_cache, called_node, reused, cacheStep

cacheVars == <<node_mesh, mesh_cache, called_node, reused, cacheStep>>

(***************************************************************************)
(* Region filters of the detection run                                     *)
(*   detect_dangling_vertices : the setting self._detect_dangling_vertices *)
(*   floating_mesh            : whether mesh_min_y > 0.5                   *)
(*   vertex_regions_active    : dangling_vertex_regions_active of the run  *)
(*   apply_convexity_filter   : the flag the loop computed                 *)
(*   region_stats             : per region the counts and the average      *)
(*                              lower fraction (in hundredths) of its      *)
(*                              faces, and whether the later stages of the *)
(*                              loop accept it                             *)
(*   filter_outcomes          : per region handled, what the loop did      *)
(*   filterStep               : "start", "regions", "loop" or "done"       *)
(***************************************************************************)
VARIABLES detect_dangling_vertices, floating_mesh, vertex_regions_active,
          apply_convexity_filter, region_stats, filter_outcomes, filterStep

filterVars ==
    <<detect_dangling_vertices, floating_mesh, vertex_regions_active,
      apply_convexity_filter, region_stats, filter_outcomes, filterStep>>

(***************************************************************************)
(* Edge chains                                                             *)
(*   boundary_edges : the list of edges <<start, end>> handed to the merge *)
(*   merged_edges   : the list returned: per chain its start, its end and  *)
(*                    the positions in boundary_edges of the edges it took *)
(*   edgeStep       : "input" or "merge_nearby_edges"                      *)
(* A point is one coordinate, in units of 0.5 mm.                          *)
(***************************************************************************)
VARIABLES boundary_edges, merged_edges, edgeStep

edgeVars == <<boundary_edges, merged_edges, edgeStep>>

(***************************************************************************)
(* Column mesh                                                             *)
(*   column_sides  : the number of sides of the column                     *)
(*   column_tip_y  : the height of the tip                                 *)
(*   column_base_y : the height of the base                                *)
(*   column_mesh   : the vertices and indices of the mesh built            *)
(*   columnStep    : "input" or "create_tip_column_mesh_v2"                *)
(* A ring vertex is kept as its ring, its place i on the ring and its      *)
(* height; its x and z are base or top radius times cos and sin of         *)
(* 2 pi i / sides.                                                         *)
(***************************************************************************)
VARIABLES column_sides, column_tip_y, column_base_y, column_mesh, columnStep

columnVars == <<column_sides, column_tip_y, column_base_y, column_mesh, columnStep>>

(***************************************************************************)
(* Single-region mode (_detectSingleRegion)                                *)
(*   click_mesh      : the cache entry of the clicked node: indices,       *)
(*                     vertices (in 0.01 mm), the face adjacency and, per  *)
(*                     face, the angle in degrees between its world normal *)
(*                     and the up vector                                   *)
(*   closest_face_id : the face _findClosestFace returned                  *)
(*   click_threshold : the tool's _overhang_threshold, in degrees          *)
(*   start_face_id   : << >> for None, else <<the face the region is       *)
(*                     grown from>>                                        *)
(*   single_region_faces : the region grown with the relaxed threshold     *)
(*   scene_volumes   : the modifier volumes added to the scene             *)
(*   singleStep      : "click", or how the call ended                      *)
(***************************************************************************)
VARIABLES click_mesh, closest_face_id, click_threshold, start_face_id,
          single_region_faces, scene_volumes, singleStep

singleVars ==
    <<click_mesh, closest_face_id, click_threshold, start_face_id,
      single_region_faces, scene_volumes, singleStep>>

(***************************************************************************)
(* The tool's support settings and cached detection results               *)
(*   support_mode       : _support_mode                                    *)
(*   support_settings   : the seven _support_* settings                    *)
(*   cube_size          : _cube_x, _cube_y, _cube_z, in 0.1 mm             *)
(*   last_call          : the public operation called last, whether it     *)
(*                        raised and whether it emitted propertyChanged    *)
(*   overhang_threshold : _overhang_threshold, in degrees                  *)
(*   detected_overhangs : _detected_overhangs                              *)
(*   overhang_angles    : << >> for None, else <<the node whose faces the  *)
(*                        cached angles belong to>>                        *)
(*   results_from       : not a field of the tool: the node and the        *)
(*                        threshold of the detection run that stored       *)
(*                        detected_overhangs, << >> before any             *)
(*   selected_node      : << >> or <<Selection.getSelectedObject(0)>>      *)
(*   tool_supports      : the nodes the create operations added to the     *)
(*                        scene, each with the selection and the results   *)
(*                        it was made from                                 *)
(*   tool_calls         : the number of operations called so far           *)
(***************************************************************************)
VARIABLES support_mode, support_settings, cube_size, last_call, overhang_threshold,
          detected_overhangs, overhang_angles, results_from, selected_node,
          tool_supports, tool_calls

toolVars ==
    <<support_mode, support_settings, cube_size, last_call, overhang_threshold,
      detected_overhangs, overhang_angles, results_from, selected_node,
      tool_supports, tool_calls>>

(***************************************************************************)
(* Mouse presses, the selection and the click modes                        *)
(*   has_selection  : Selection.hasSelection()                             *)
(*   had_selection  : _had_selection                                       *)
(*   skip_press     : _skip_press                                          *)
(*   timer_active   : _had_selection_timer has been started and has not    *)
(*                    fired yet                                            *)
(*   export_mode    : _export_mode                                         *)
(*   auto_detect    : _auto_detect                                         *)
(*   single_region  : _single_region                                       *)
(*   since_clear    : not a field of the tool: "fresh" once                *)
(*                    _selectionChangeDelay has seen the selection         *)
(*                    cleared, "stale" once it has run again after that,   *)
(*                    "none" initially and once a press has reached the    *)
(*                    test of _skip_press                                  *)
(*   click_log      : not a field of the tool: one record per left press   *)
(*                    handled by event(), with what it did                 *)
(***************************************************************************)
VARIABLES has_selection, had_selection, skip_press, timer_active, export_mode,
          auto_detect, single_region, since_clear, click_log

eventVars ==
    <<has_selection, had_selection, skip_press, timer_active, export_mode,
      auto_detect, single_region, since_clear, click_log>>

vars ==
    <<topoVars, classifyVars, satVars, autoVars,
      placeVars, danglingVars, weldVars, cacheVars,
      filterVars, edgeVars, columnVars, singleVars,
      toolVars, eventVars>>

(***************************************************************************)
(* Each group of operations is checked on its own: the state of the other  *)
(* groups is idle and stays unchanged.                                     *)
(***************************************************************************)
TopoIdle ==
    /\ indices = << >> /\ mask = {} /\ op = "idle"
    /\ adjacency = << >> /\ regions = << >> /\ seed = -1 /\ region = << >>

\* no face is being classified
ClassifyIdle ==
    /\ edge1 = <<0, 0, 0>> /\ edge2 = <<0, 0, 0>> /\ threshold_angle = 0
    /\ classifier = "none" /\ classifyStep = "idle"
    /\ overhang = FALSE /\ overhangFlipped = FALSE

SatIdle ==
    /\ obb = [center |-> <<0, 0, 0>>, extents |-> <<0, 0, 0>>,
              rotation |-> << <<5, 0, 0>>, <<0, 5, 0>>, <<0, 0, 5>> >>]
    /\ mesh_triangles = << >> /\ excluded_faces = {}
    /\ collision = FALSE /\ satStep = "idle"

AutoIdle ==
    /\ total_regions = 0 /\ target_region_id = -1
    /\ dangling_vertex_regions_active = FALSE /\ region_id = 0
    /\ current = << >> /\ outcomes = << >> /\ blockers = {}
    /\ created_count = 0 /\ autoStep = "idle"

PlaceIdle ==
    /\ source_mesh = {} /\ tip_pos = <<0, 0, 0>> /\ column_radius = 0
    /\ obstruction_y = <<0, 1>> /\ column = << >> /\ placeStep = "idle"

DanglingIdle ==
    /\ vertex_y = << >> /\ tri_indices = << >> /\ min_drop = 0 /\ min_face_y = 0
    /\ seed_region = {} /\ expanded = {}
    /\ vertex_regions = << >> /\ min_vertices = 0 /\ merged = << >>
    /\ face_mask = << >> /\ face_regions = << >> /\ loose_regions = << >> /\ combined = << >>
    /\ dangling_mask = {} /\ dangling_regions = << >> /\ danglingStep = "idle"

WeldIdle ==
    /\ raw_mesh = << >> /\ welded = << >> /\ rewelded = << >> /\ weldStep = "idle"

CacheIdle ==
    /\ node_mesh = << >> /\ mesh_cache = << >> /\ called_node = 0
    /\ reused = FALSE /\ cacheStep = "idle"

FilterIdle ==
    /\ detect_dangling_vertices = FALSE /\ floating_mesh = FALSE
    /\ vertex_regions_active = FALSE /\ apply_convexity_filter = FALSE
    /\ region_stats = << >> /\ filter_outcomes = << >> /\ filterStep = "idle"

EdgeIdle ==
    /\ boundary_edges = << >> /\ merged_edges = << >> /\ edgeStep = "idle"

ColumnIdle ==
    /\ column_sides = 0 /\ column_tip_y = 0 /\ column_base_y = 0
    /\ column_mesh = << >> /\ columnStep = "idle"

SingleIdle ==
    /\ click_mesh = << >> /\ closest_face_id = 0 /\ click_threshold = 0
    /\ start_face_id = << >> /\ single_region_faces = << >>
    /\ scene_volumes = << >> /\ singleStep = "idle"

ToolIdle ==
    /\ support_mode = "" /\ support_settings = << >> /\ cube_size = << >>
    /\ last_call = << >> /\ overhang_threshold = 0 /\ detected_overhangs = << >>
    /\ overhang_angles = << >> /\ results_from = << >> /\ selected_node = << >>
    /\ tool_supports = << >> /\ tool_calls = 0

EventIdle ==
    /\ has_selection = FALSE /\ had_selection = FALSE /\ skip_press = FALSE
    /\ timer_active = FALSE /\ export_mode = FALSE /\ auto_detect = FALSE
    /\ single_region = FALSE /\ since_clear = "" /\ click_log = << >>

TopoFrame ==
    UNCHANGED <<classifyVars, satVars, autoVars, placeVars,
                danglingVars, weldVars, cacheVars, filterVars,
                edgeVars, columnVars, singleVars, toolVars,
                eventVars>>

ClassifyFrame ==
    UNCHANGED <<topoVars, satVars, autoVars, placeVars,
                danglingVars, weldVars, cacheVars, filterVars,
                edgeVars, columnVars, singleVars, toolVars,
                eventVars>>

SatFrame ==
    UNCHANGED <<topoVars, classifyVars, autoVars, placeVars,
                danglingVars, weldVars, cacheVars, filterVars,
                edgeVars, columnVars, singleVars, toolVars,
                eventVars>>

AutoFrame ==
    UNCHANGED <<topoVars, classifyVars, satVars, placeVars,
                danglingVars, weldVars, cacheVars, filterVars,
                edgeVars, columnVars, singleVars, toolVars,
                eventVars>>

PlaceFrame ==
    UNCHANGED <<topoVars, classifyVars, satVars, autoVars,
                danglingVars, weldVars, cacheVars, filterVars,
                edgeVars, columnVars, singleVars, toolVars,
                eventVars>>

DanglingFrame ==
    UNCHANGED <<topoVars, classifyVars, satVars, autoVars,
                placeVars, weldVars, cacheVars, filterVars,
                edgeVars, columnVars, singleVars, toolVars,
                eventVars>>

WeldFrame ==
    UNCHANGED <<topoVars, classifyVars, satVars, autoVars,
                placeVars, danglingVars, cacheVars, filterVars,
                edgeVars, columnVars, singleVars, toolVars,
                eventVars>>

CacheFrame ==
    UNCHANGED <<topoVars, classifyVars, satVars, autoVars,
                placeVars, danglingVars, weldVars, filterVars,
                edgeVars, columnVars, singleVars, toolVars,
                eventVars>>

FilterFrame ==
    UNCHANGED <<topoVars, classifyVars, satVars, autoVars,
                placeVars, danglingVars, weldVars, cacheVars,
                edgeVars, columnVars, singleVars, toolVars,
                eventVars>>

EdgeFrame ==
    UNCHANGED <<topoVars, classifyVars, satVars, autoVars,
                placeVars, danglingVars, weldVars, cacheVars,
                filterVars, columnVars, singleVars, toolVars,
                eventVars>>

ColumnFrame ==
    UNCHANGED <<topoVars, classifyVars, satVars, autoVars,
                placeVars, danglingVars, weldVars, cacheVars,
                filterVars, edgeVars, singleVars, toolVars,
                eventVars>>

SingleFrame ==
    UNCHANGED <<topoVars, classifyVars, satVars, autoVars,
                placeVars, danglingVars, weldVars, cacheVars,
                filterVars, edgeVars, columnVars, toolVars,
                eventVars>>

ToolFrame ==
    UNCHANGED <<topoVars, classifyVars, satVars, autoVars,
                placeVars, danglingVars, weldVars, cacheVars,
                filterVars, edgeVars, columnVars, singleVars,
                eventVars>>

EventFrame ==
    UNCHANGED <<topoVars, classifyVars, satVars, autoVars,
                placeVars, danglingVars, weldVars, cacheVars,
                filterVars, edgeVars, columnVars, singleVars,
                toolVars>>

Verts == 0 .. (NumVerts - 1)

\* Triangles with three distinct vertex indices.  Adjacency depends only on the
\* vertex set of a face, so one winding per vertex set is enumerated.
TriangleCatalog == {t \in Verts \X Verts \X Verts : t[1] < t[2] /\ t[2] < t[3]}

\* lexicographic order on triangles
TriLeq(s, t) ==
    \/ s[1] < t[1]
    \/ s[1] = t[1] /\ s[2] < t[2]
    \/ s[1] = t[1] /\ s[2] = t[2] /\ s[3] <= t[3]

\* Index arrays of 1 .. MaxFaces faces (repeated faces allowed).  The results
\* checked below do not depend on how the faces are numbered, so the faces are
\* listed in ascending or in descending order.
Meshes == UNION {{m \in [0 .. (n - 1) -> TriangleCatalog] :
                      \/ \A i, j \in 0 .. (n - 1) : i < j => TriLeq(m[i], m[j])
                      \/ \A i, j \in 0 .. (n - 1) : i < j => TriLeq(m[j], m[i])}
                 : n \in 1 .. MaxFaces}

FaceIds(ind) == DOMAIN ind

\* tuple(sorted([a, b]))
SortedEdge(a, b) == IF a <= b THEN <<a, b>> ELSE <<b, a>>

\* the i-th edge (i = 0, 1, 2) of a face: (face[i], face[(i + 1) % 3])
FaceEdge(face, i) == SortedEdge(face[i + 1], face[((i + 1) % 3) + 1])

FaceEdges(face) == {FaceEdge(face, i) : i \in 0 .. 2}

\* edge_to_faces as a Python dict: keys in insertion order plus the lists.
EmptyE2F == [order |-> << >>, map |-> << >>]

AddEdge(e2f, edge, f) ==
    IF edge \in DOMAIN e2f.map
    THEN [e2f EXCEPT !.map[edge] = Append(@, f)]
    ELSE [order |-> Append(e2f.order, edge), map |-> (edge :> <<f>>) @@ e2f.map]

\* the edge -> faces multimap over the faces listed in faceSeq, in that order
RECURSIVE EdgeToFaces(_, _, _, _)
EdgeToFaces(ind, faceSeq, k, e2f) ==
    IF k > Len(faceSeq) THEN e2f
    ELSE LET f == faceSeq[k]
             e0 == AddEdge(e2f, FaceEdge(ind[f], 0), f)
             e1 == AddEdge(e0, FaceEdge(ind[f], 1), f)
             e2 == AddEdge(e1, FaceEdge(ind[f], 2), f)
         IN EdgeToFaces(ind, faceSeq, k + 1, e2)

\* adjacency[f].append(g), creating the key when it is missing
AppendNeighbor(adj, f, g) ==
    IF f \in DOMAIN adj THEN [adj EXCEPT ![f] = Append(@, g)]
    ELSE (f :> <<g>>) @@ adj

\* mutant: the link is recorded in one direction only
LinkOneWay(adj, f1, f2) == AppendNeighbor(adj, f1, f2)

LinkBothWays(adj, f1, f2) == AppendNeighbor(AppendNeighbor(adj, f1, f2), f2, f1)

\* mutant: an edge used by more than two faces still links its first two faces
RECURSIVE LinkEdgesAtLeastTwo(_, _, _)
LinkEdgesAtLeastTwo(e2f, k, adj) ==
    IF k > Len(e2f.order) THEN adj
    ELSE LET faces == e2f.map[e2f.order[k]]
         IN LinkEdgesAtLeastTwo(e2f, k + 1,
                      IF Len(faces) >= 2 THEN LinkBothWays(adj, faces[1], faces[2])
                      ELSE adj)

\* "for edge, faces in edge_to_faces.items(): if len(faces) == 2: ..."
RECURSIVE LinkEdges(_, _, _)
LinkEdges(e2f, k, adj) ==
    IF k > Len(e2f.order) THEN adj
    ELSE LET faces == e2f.map[e2f.order[k]]
         IN LinkEdges(e2f, k + 1,
                      IF Len(faces) = 2 THEN LinkBothWays(adj, faces[1], faces[2])
                      ELSE adj)

\* _build_face_adjacency_graph / analyze_mesh.build_face_adjacency_graph:
\* every face is a key, isolated faces map to the empty list.
build_face_adjacency_graph(ind) ==
    LinkEdges(EdgeToFaces(ind, Ascending(FaceIds(ind)), 1, EmptyE2F), 1,
              [f \in FaceIds(ind) |-> << >>])

\* _buildAdjacencyGraph: keys only for faces that received a neighbour.
buildAdjacencyGraph(ind) ==
    LinkEdges(EdgeToFaces(ind, Ascending(FaceIds(ind)), 1, EmptyE2F), 1, << >>)

\* adjacency.get(f, [])
AdjGet(adj, f) == IF f \in DOMAIN adj THEN adj[f] ELSE << >>

(***************************************************************************)
(* Region growing                                                          *)
(***************************************************************************)
\* "for neighbor in adjacency[current]: if neighbor not in visited:
\*      visited.add(neighbor); queue.append(neighbor)"
RECURSIVE EnqueueUnvisited(_, _, _)
EnqueueUnvisited(nbs, k, st) ==
    IF k > Len(nbs) THEN st
    ELSE EnqueueUnvisited(nbs, k + 1,
            IF nbs[k] \in st.visited THEN st
            ELSE [st EXCEPT !.queue = Append(@, nbs[k]),
                            !.visited = @ \cup {nbs[k]}])

\* the while-queue loop of _findConnectedRegions (faces are marked when queued)
RECURSIVE BfsComponent(_, _)
BfsComponent(adj, st) ==
    IF st.queue = << >> THEN st
    ELSE LET cur == Head(st.queue)
             popped == [st EXCEPT !.queue = Tail(@), !.region = Append(@, cur)]
         IN BfsComponent(adj, EnqueueUnvisited(AdjGet(adj, cur), 1, popped))

\* "for start_face in overhang_face_ids: if start_face in visited: continue ..."
RECURSIVE RegionsLoop(_, _, _, _, _)
RegionsLoop(adj, order, k, visited, regs) ==
    IF k > Len(order) THEN regs
    ELSE IF order[k] \in visited THEN RegionsLoop(adj, order, k + 1, visited, regs)
    ELSE LET st == BfsComponent(adj, [queue |-> <<order[k]>>,
                                      visited |-> visited \cup {order[k]},
                                      region |-> << >>])
         IN RegionsLoop(adj, order, k + 1, st.visited, Append(regs, st.region))

\* stable insertion of r into a list sorted by descending length
RECURSIVE InsertBySize(_, _)
InsertBySize(sorted, r) ==
    IF sorted = << >> THEN <<r>>
    ELSE IF Len(Head(sorted)) >= Len(r) THEN <<Head(sorted)>> \o InsertBySize(Tail(sorted), r)
    ELSE <<r>> \o sorted

\* regions.sort(key=lambda r: len(r), reverse=True)
RECURSIVE SortBySizeDesc(_, _, _)
SortBySizeDesc(regs, k, sorted) ==
    IF k > Len(regs) THEN sorted
    ELSE SortBySizeDesc(regs, k + 1, InsertBySize(sorted, regs[k]))

\* the adjacency _findConnectedRegions derives from the overhang faces alone
OverhangAdjacency(ind, order) == LinkEdges(EdgeToFaces(ind, order, 1, EmptyE2F), 1, << >>)

\* mutant: a start face is never looked up in visited, so every overhang face
\* that was already absorbed starts a region of its own again
findConnectedRegionsNoSkip(ind, order) ==
    SortBySizeDesc([k \in DOMAIN order |->
                      BfsComponent(OverhangAdjacency(ind, order),
                                   [queue |-> <<order[k]>>, visited |-> {order[k]},
                                    region |-> << >>]).region], 1, << >>)

\* _findConnectedRegions(vertices, indices, overhang_face_ids)
findConnectedRegions(ind, order) ==
    SortBySizeDesc(RegionsLoop(OverhangAdjacency(ind, order), order, 1, {}, << >>), 1, << >>)

\* "for neighbor_id in adjacency.get(face_id, []): if neighbor_id not in visited:
\*      queue.append(neighbor_id)"
RECURSIVE EnqueueIfNotVisited(_, _, _)
EnqueueIfNotVisited(nbs, k, st) ==
    IF k > Len(nbs) THEN st
    ELSE EnqueueIfNotVisited(nbs, k + 1,
            IF nbs[k] \in st.visited THEN st
            ELSE [st EXCEPT !.queue = Append(@, nbs[k])])

\* the while-queue loop of _find_connected_overhang_region (faces are marked
\* and tested against the mask when they are popped)
RECURSIVE BfsMasked(_, _, _)
BfsMasked(adj, msk, st) ==
    IF st.queue = << >> THEN st
    ELSE LET cur == Head(st.queue)
             popped == [st EXCEPT !.queue = Tail(@)]
         IN IF cur \in st.visited \/ cur \notin msk
            THEN BfsMasked(adj, msk, popped)
            ELSE BfsMasked(adj, msk,
                    EnqueueIfNotVisited(AdjGet(adj, cur), 1,
                        [popped EXCEPT !.visited = @ \cup {cur},
                                       !.region = Append(@, cur)]))

\* mutant: the traversal does not test the popped face against the mask
find_connected_overhang_region_unmasked(s, msk, nfaces, adj) ==
    IF s >= nfaces \/ s \notin msk THEN << >>
    ELSE BfsMasked(adj, 0 .. (nfaces - 1),
                   [queue |-> <<s>>, visited |-> {}, region |-> << >>]).region

\* _find_connected_overhang_region(seed_face_id, overhang_mask, adjacency);
\* nfaces is len(overhang_mask)
find_connected_overhang_region(s, msk, nfaces, adj) ==
    IF s >= nfaces \/ s \notin msk THEN << >>
    ELSE BfsMasked(adj, msk, [queue |-> <<s>>, visited |-> {}, region |-> << >>]).region

\* the while-queue loop of _findConnectedOverhangRegion: every queued face is
\* marked, only faces that pass _isFaceOverhang are kept and expanded
RECURSIVE BfsOverhang(_, _, _)
BfsOverhang(adj, msk, st) ==
    IF st.queue = << >> THEN st
    ELSE LET cur == Head(st.queue)
             popped == [st EXCEPT !.queue = Tail(@)]
         IN IF cur \in msk
            THEN BfsOverhang(adj, msk,
                    EnqueueUnvisited(AdjGet(adj, cur), 1,
                        [popped EXCEPT !.region = Append(@, cur)]))
            ELSE BfsOverhang(adj, msk, popped)

\* _findConnectedOverhangRegion(start_face_id, ..., adjacency, ...); msk is the
\* set of faces for which _isFaceOverhang answers True
findConnectedOverhangRegion(s, msk, adj) ==
    BfsOverhang(adj, msk, [queue |-> <<s>>, visited |-> {s}, region |-> << >>]).region

(***************************************************************************)
(* Mesh topology: operations                                               *)
(***************************************************************************)
TopoInit ==
    /\ indices \in Meshes
    /\ mask \in SUBSET FaceIds(indices)
    /\ op = "input"
    /\ adjacency = << >> /\ regions = << >> /\ seed = -1 /\ region = << >>
    /\ ClassifyIdle /\ SatIdle /\ AutoIdle /\ PlaceIdle
    /\ DanglingIdle /\ WeldIdle /\ CacheIdle /\ FilterIdle
    /\ EdgeIdle /\ ColumnIdle /\ SingleIdle /\ ToolIdle
    /\ EventIdle

\* _build_face_adjacency_graph(indices)
BuildFaceAdjacencyGraph ==
    /\ op = "input"
    /\ adjacency' = build_face_adjacency_graph(indices)
    /\ op' = "build_face_adjacency_graph"
    /\ UNCHANGED <<indices, mask, regions, seed, region>>
    /\ TopoFrame

\* _buildAdjacencyGraph(indices)
BuildAdjacencyGraph ==
    /\ op = "input"
    /\ adjacency' = buildAdjacencyGraph(indices)
    /\ op' = "buildAdjacencyGraph"
    /\ UNCHANGED <<indices, mask, regions, seed, region>>
    /\ TopoFrame

\* _findConnectedRegions over the overhang faces, visited in any order
FindConnectedRegions ==
    /\ op = "input"
    /\ mask # {}
    /\ \E order \in Perms(mask) : regions' = findConnectedRegions(indices, order)
    /\ op' = "findConnectedRegions"
    /\ UNCHANGED <<indices, mask, adjacency, seed, region>>
    /\ TopoFrame

\* detectOverhangsOnSelection: builds the adjacency graph of the whole mesh and
\* grows one region from a seed with _find_connected_overhang_region
FindConnectedOverhangRegionFromSeed ==
    /\ op = "input"
    /\ \E s \in 0 .. Cardinality(FaceIds(indices)) :
          /\ seed' = s
          /\ adjacency' = build_face_adjacency_graph(indices)
          /\ region' = find_connected_overhang_region(s, mask, Cardinality(FaceIds(indices)),
                                                       build_face_adjacency_graph(indices))
    /\ op' = "find_connected_overhang_region"
    /\ UNCHANGED <<indices, mask, regions>>
    /\ TopoFrame

\* _findConnectedOverhangRegion from a start face of the mesh, over the adjacency
\* that _getCachedFaceAdjacency hands out (_buildAdjacencyGraph)
FindConnectedOverhangRegionFromClick ==
    /\ op = "input"
    /\ \E s \in FaceIds(indices) :
          /\ seed' = s
          /\ adjacency' = buildAdjacencyGraph(indices)
          /\ region' = findConnectedOverhangRegion(s, mask, buildAdjacencyGraph(indices))
    /\ op' = "findConnectedOverhangRegion"
    /\ UNCHANGED <<indices, mask, regions>>
    /\ TopoFrame

TopoNext ==
    \/ BuildFaceAdjacencyGraph
    \/ BuildAdjacencyGraph
    \/ FindConnectedRegions
    \/ FindConnectedOverhangRegionFromSeed
    \/ FindConnectedOverhangRegionFromClick

SpecTopo == TopoInit /\ [][TopoNext]_vars

(***************************************************************************)
(* Mesh topology: reference notions used by the properties                 *)
(***************************************************************************)
\* the faces among `among` that use the undirected edge e
EdgeUsers(ind, among, e) == {f \in among : e \in FaceEdges(ind[f])}

\* the edges that link f and g: used by f, by g, and by no third face of `among`
LinkingEdges(ind, among, f, g) ==
    {e \in FaceEdges(ind[f]) \cap FaceEdges(ind[g]) : EdgeUsers(ind, among, e) = {f, g}}

\* shared-edge links between candidate faces, edge use counted over `among`
SharedEdgeLinks(ind, among, cand) ==
    {p \in cand \X cand : p[1] # p[2] /\ LinkingEdges(ind, among, p[1], p[2]) # {}}

\* links between mask faces according to an adjacency mapping
MaskLinks(adj, msk) == {p \in msk \X msk : InSeq(p[2], AdjGet(adj, p[1]))}

\* the faces reachable from S along links
RECURSIVE Closure(_, _)
Closure(S, links) ==
    LET T == S \cup {p[2] : p \in {q \in links : q[1] \in S}}
    IN IF T = S THEN S ELSE Closure(T, links)

Components(nodes, links) == {Closure({f}, links) : f \in nodes}

RegionSets(regs) == {Range(regs[i]) : i \in DOMAIN regs}

\* the regions are duplicate-free, pairwise disjoint and cover exactly cand
IsPartitionOf(regs, cand) ==
    /\ \A i \in DOMAIN regs : regs[i] # << >> /\ NoDup(regs[i])
    /\ \A i, j \in DOMAIN regs : i # j => Range(regs[i]) \cap Range(regs[j]) = {}
    /\ UNION RegionSets(regs) = cand

AdjacencyBuilt == op \in {"build_face_adjacency_graph", "buildAdjacencyGraph"}

(***************************************************************************)
(* Mesh topology: properties                                               *)
(***************************************************************************)
\* no two faces of the mesh use the same three vertices
NoCoincidentFaces(ind) ==
    \A f, g \in FaceIds(ind) : f # g => Range(ind[f]) # Range(ind[g])

C2_GrowIsMaskedReachability ==
    op \in {"find_connected_overhang_region", "findConnectedOverhangRegion"} =>
        IF seed \notin FaceIds(indices) \/ seed \notin mask
        THEN region = << >>
        ELSE /\ NoDup(region)
             /\ Range(region) = Closure({seed}, MaskLinks(adjacency, mask))

\* a mask face lies behind a non-mask neighbour of the seed and is not returned
C2_Witness ==
    /\ op = "find_connected_overhang_region"
    /\ Len(region) >= 1
    /\ \E g \in FaceIds(indices) \ mask :
          /\ InSeq(g, AdjGet(adjacency, seed))
          /\ \E f \in mask : InSeq(f, AdjGet(adjacency, g)) /\ f \notin Range(region)

\* C3: the face adjacency graph is symmetric.
C3_AdjacencySymmetric ==
    AdjacencyBuilt =>
        \A A, B \in FaceIds(indices) :
            InSeq(B, AdjGet(adjacency, A)) <=> InSeq(A, AdjGet(adjacency, B))

C3_Witness ==
    /\ AdjacencyBuilt
    /\ \E A, B \in FaceIds(indices) : A # B /\ InSeq(B, AdjGet(adjacency, A))
    /\ \E A \in FaceIds(indices) : AdjGet(adjacency, A) = << >>

\* the undirected edges two faces have in common
SharedEdges(ind, f, g) == FaceEdges(ind[f]) \cap FaceEdges(ind[g])

\* C4 (as stated): two faces are neighbours iff they share exactly one undirected
\* edge and that edge is used by exactly two faces, and no neighbour is listed
\* twice.
C4_NeighboursShareExactlyOneEdge ==
    AdjacencyBuilt =>
        \A A, B \in FaceIds(indices) :
            /\ InSeq(B, AdjGet(adjacency, A)) <=>
                   /\ A # B
                   /\ Cardinality(SharedEdges(indices, A, B)) = 1
                   /\ \A e \in SharedEdges(indices, A, B) :
                          EdgeUsers(indices, FaceIds(indices), e) = {A, B}
            /\ Count(B, AdjGet(adjacency, A)) <= 1

\* C4 (amended): B is listed in adjacency[A] once for every undirected edge that
\* A and B share and that exactly these two faces use: an edge used by one face or
\* by more than two faces links nothing, two faces sharing one such edge are
\* listed once in each direction, and faces sharing several such edges (coincident
\* triangles) are listed once per edge.
C4_OneLinkPerTwoFaceEdge ==
    AdjacencyBuilt =>
        \A A, B \in FaceIds(indices) :
            Count(B, AdjGet(adjacency, A)) =
                IF A = B THEN 0
                ELSE Cardinality(LinkingEdges(indices, FaceIds(indices), A, B))

\* two faces linked through their one common edge, next to a face whose edges
\* are used by no other face
C4_Witness ==
    /\ AdjacencyBuilt
    /\ \E A, B, C \in FaceIds(indices) :
          /\ A # B
          /\ Count(B, AdjGet(adjacency, A)) = 1
          /\ Count(A, AdjGet(adjacency, B)) = 1
          /\ AdjGet(adjacency, C) = << >>

(***************************************************************************)
(* Overhang classification                                                 *)
(*                                                                         *)
(* A face is given by its two edge vectors on an integer grid, so its      *)
(* normal Cross(edge1, edge2) is an integer vector.  The classifiers       *)
(* compare arccos(dot / length) with a threshold in degrees; for the       *)
(* support angles below the comparison is decided exactly on the squares   *)
(* (4 sin^2 and 4 cos^2 of 0, 30, 45, 60, 90 are integers).                *)
(***************************************************************************)
Cross(a, b) ==
    << a[2] * b[3] - a[3] * b[2], a[3] * b[1] - a[1] * b[3], a[1] * b[2] - a[2] * b[1] >>

Dot(a, b) == a[1] * b[1] + a[2] * b[2] + a[3] * b[3]

GridCoords == (0 - GridMax) .. GridMax

EdgeVectors == GridCoords \X GridCoords \X GridCoords

SupportAngles == {0, 30, 45, 60, 90}

Sin2x4(t) == CASE t = 0 -> 0 [] t = 30 -> 1 [] t = 45 -> 2 [] t = 60 -> 3 [] t = 90 -> 4

Cos2x4(t) == 4 - Sin2x4(t)

\* a variant that accepts the threshold angle itself
AngleAtLeast90Plus(dot, len2, t) == dot < 0 /\ 4 * dot * dot >= Sin2x4(t) * len2

\* arccos(dot / sqrt(len2)) > 90 + t degrees, for len2 > 0
AngleAbove90Plus(dot, len2, t) == dot < 0 /\ 4 * dot * dot > Sin2x4(t) * len2

\* arccos(dot / sqrt(len2)) < 90 - t degrees, for len2 > 0
AngleBelow90Minus(dot, len2, t) == dot > 0 /\ 4 * dot * dot > Sin2x4(t) * len2

\* arccos(dot / sqrt(len2)) > t degrees, for len2 > 0
AngleAbove(dot, len2, t) == dot < 0 \/ 4 * dot * dot < Cos2x4(t) * len2

up_vector == <<0, 1, 0>>

build_direction == <<0, -1, 0>>

\* analyze_mesh.py works in the Z-up frame of the mesh file
build_direction_z == <<0, 0, -1>>

\* the Y-up scene vector v in the Z-up frame of the mesh file
ToZUp(v) == <<v[1], 0 - v[3], v[2]>>

\* the angle test shared by _isFaceOverhang and _detectOverhangFaces:
\* angle to the up vector > deg2rad(90 + threshold_angle)
AngleToUpExceeds(normal, t) ==
    AngleAbove90Plus(Dot(normal, up_vector), Dot(normal, normal), t)

\* _isFaceOverhang without a transform: a face of zero area is no overhang
isFaceOverhang(e1, e2, t) ==
    LET normal_local == Cross(e1, e2)
    IN  IF Dot(normal_local, normal_local) = 0 THEN FALSE
        ELSE AngleToUpExceeds(normal_local, t)

\* _detectOverhangFaces without a transform: membership of the face in its result
detectOverhangFaces(e1, e2, t) ==
    LET normal_local == Cross(e1, e2)
    IN  Dot(normal_local, normal_local) > 0 /\ AngleToUpExceeds(normal_local, t)

\* angles < 90 - threshold_angle on normals from _compute_face_normals, which
\* divides by max(length, 1e-10): a face of zero area keeps the zero normal and
\* gets the angle arccos(0) = 90
AngleToDownBelow(normal, t) ==
    IF Dot(normal, normal) = 0 THEN 90 < 90 - t
    ELSE AngleBelow90Minus(Dot(normal, build_direction), Dot(normal, normal), t)

\* _detect_overhangs: membership of the face in overhang_face_ids
detect_overhangs(e1, e2, t) == AngleToDownBelow(Cross(e1, e2), t)

\* _detectOverhangFacesFromNormals on the geometric face normals
detectOverhangFacesFromNormals(e1, e2, t) == AngleToDownBelow(Cross(e1, e2), t)

\* analyze_mesh.detect_overhangs: angles > threshold_angle against (0, 0, -1)
analyze_mesh_detect_overhangs(e1, e2, t) ==
    LET normal == Cross(ToZUp(e1), ToZUp(e2))
    IN  IF Dot(normal, normal) = 0 THEN 90 > t
        ELSE AngleAbove(Dot(normal, build_direction_z), Dot(normal, normal), t)

PluginClassifiers ==
    {"isFaceOverhang", "detectOverhangFaces", "detect_overhangs",
     "detectOverhangFacesFromNormals"}

Classifiers == PluginClassifiers \cup {"analyze_mesh_detect_overhangs"}

Verdict(c, e1, e2, t) ==
    CASE c = "isFaceOverhang" -> isFaceOverhang(e1, e2, t)
      [] c = "detectOverhangFaces" -> detectOverhangFaces(e1, e2, t)
      [] c = "detect_overhangs" -> detect_overhangs(e1, e2, t)
      [] c = "detectOverhangFacesFromNormals" -> detectOverhangFacesFromNormals(e1, e2, t)
      [] c = "analyze_mesh_detect_overhangs" -> analyze_mesh_detect_overhangs(e1, e2, t)

ClassifyInit ==
    /\ edge1 \in EdgeVectors
    /\ edge2 \in EdgeVectors
    /\ threshold_angle \in SupportAngles
    /\ classifier = "none" /\ classifyStep = "input"
    /\ overhang = FALSE /\ overhangFlipped = FALSE
    /\ TopoIdle /\ SatIdle /\ AutoIdle /\ PlaceIdle
    /\ DanglingIdle /\ WeldIdle /\ CacheIdle /\ FilterIdle
    /\ EdgeIdle /\ ColumnIdle /\ SingleIdle /\ ToolIdle
    /\ EventIdle

\* one classifier gives its verdict on the face
Classify(c) ==
    /\ classifyStep = "input"
    /\ classifier' = c
    /\ overhang' = Verdict(c, edge1, edge2, threshold_angle)
    /\ classifyStep' = "classified"
    /\ UNCHANGED <<edge1, edge2, threshold_angle, overhangFlipped>>
    /\ ClassifyFrame

\* the same classifier on the face with its normal negated (winding reversed),
\* which is the face as seen with the up axis negated
ClassifyFlipped ==
    /\ classifyStep = "classified"
    /\ overhangFlipped' = Verdict(classifier, edge2, edge1, threshold_angle)
    /\ classifyStep' = "reclassified"
    /\ UNCHANGED <<edge1, edge2, threshold_angle, classifier, overhang>>
    /\ ClassifyFrame

ClassifyNext ==
    \/ \E c \in Classifiers : Classify(c)
    \/ ClassifyFlipped

SpecClassify == ClassifyInit /\ [][ClassifyNext]_vars

\* the face normal and the contract's test: angle to the up axis > 90 + supportAngle
FaceNormal == Cross(edge1, edge2)

NonDegenerate == Dot(FaceNormal, FaceNormal) > 0

AngleToUpAbove90PlusSupportAngle ==
    /\ NonDegenerate
    /\ FaceNormal[2] < 0
    /\ 4 * FaceNormal[2] * FaceNormal[2] > Sin2x4(threshold_angle) * Dot(FaceNormal, FaceNormal)

\* the normal is more than supportAngle away from the horizontal plane
OutsideBand ==
    4 * FaceNormal[2] * FaceNormal[2] > Sin2x4(threshold_angle) * Dot(FaceNormal, FaceNormal)

\* C5: every classifier, analyze_mesh.detect_overhangs included, marks a face an
\* overhang exactly when the angle between its normal and the up axis exceeds
\* 90 + supportAngle, so that all code paths agree (stated for the faces that
\* have a normal).
C5_AllClassifiersAgree ==
    (classifyStep # "input" /\ NonDegenerate) => (overhang = AngleToUpAbove90PlusSupportAngle)

\* C6 (as stated): negating the face normal swaps the verdict of every
\* non-degenerate face.
C6_FlipSwapsEveryFace ==
    (classifyStep = "reclassified" /\ classifier \in PluginClassifiers /\ NonDegenerate)
        => (overhangFlipped = ~overhang)

\* C6 (amended): with the plugin's classifiers no face is an overhang under both
\* orientations, and the verdict of a non-degenerate face swaps exactly when its
\* normal is more than supportAngle away from the horizontal plane; a face inside
\* that band is a non-overhang under both orientations.
C6_FlipSwapsOutsideBand ==
    (classifyStep = "reclassified" /\ classifier \in PluginClassifiers)
        => /\ ~(overhang /\ overhangFlipped)
           /\ NonDegenerate => ((overhangFlipped = ~overhang) <=> OutsideBand)

\* a tilted face inside the band has been classified under both orientations
C6_Witness ==
    /\ classifyStep = "reclassified"
    /\ classifier = "isFaceOverhang"
    /\ NonDegenerate /\ FaceNormal[2] < 0 /\ ~OutsideBand
    /\ threshold_angle = 45
    /\ ~overhang /\ ~overhangFlipped

(***************************************************************************)
(* Collision test (geometry_utils.py)                                      *)
(*                                                                         *)
(* Points have integer coordinates.  A rotation matrix is kept as its      *)
(* three columns multiplied by 5, so that the rotation by the angle with   *)
(* cosine 3/5 and sine 4/5 is integral.  The source normalises every       *)
(* tested axis; an interval comparison is unchanged when both sides are    *)
(* multiplied by the same positive factor, so the model compares the       *)
(* projections on the unnormalised axis, multiplied by 5.                  *)
(***************************************************************************)
Sub(a, b) == << a[1] - b[1], a[2] - b[2], a[3] - b[3] >>

\* 5 times the rotation matrix, column by column: the identity, and the
\* rotation about the Y axis by the angle with cosine 3/5
Rotations ==
    { << <<5, 0, 0>>, <<0, 5, 0>>, <<0, 0, 5>> >>,
      << <<3, 0, 4>>, <<0, 5, 0>>, <<-4, 0, 3>> >> }

\* mesh vertex positions
SatPoints == (0 .. SatGrid) \X {0} \X (0 .. 1)

PointLess(p, q) ==
    \/ p[1] < q[1]
    \/ p[1] = q[1] /\ p[2] < q[2]
    \/ p[1] = q[1] /\ p[2] = q[2] /\ p[3] < q[3]

\* triangles on three different vertices, each listed once
SatTriangles ==
    {t \in SatPoints \X SatPoints \X SatPoints : PointLess(t[1], t[2]) /\ PointLess(t[2], t[3])}

TriangleLess(s, t) ==
    \/ PointLess(s[1], t[1])
    \/ s[1] = t[1] /\ PointLess(s[2], t[2])
    \/ s[1] = t[1] /\ s[2] = t[2] /\ PointLess(s[3], t[3])

\* meshes of 1 .. SatMaxTris different triangles; the verdict of the collision
\* test does not depend on the order of the faces, so one order is kept
SatMeshes ==
    UNION { {m \in [0 .. n - 1 -> SatTriangles] :
                \A i \in 0 .. n - 2 : TriangleLess(m[i], m[i + 1])} : n \in 1 .. SatMaxTris }

\* boxes of extents (1, 1, 1) around the mesh, axis-aligned or rotated
SatBoxes ==
    [center : ((0 - 2) .. (SatGrid + 2)) \X {0} \X {0, 2},
     extents : {<<1, 1, 1>>},
     rotation : Rotations]

\* the separating-axis comparison of sat_check_obb_triangle on one axis
SeparatedOn(axis, box, triangle_vertices) ==
    LET obb_axes == box.rotation
        r == box.extents[1] * Abs(Dot(axis, obb_axes[1]))
             + box.extents[2] * Abs(Dot(axis, obb_axes[2]))
             + box.extents[3] * Abs(Dot(axis, obb_axes[3]))
        obb_projection == 5 * Dot(box.center, axis)
        tri_projections == {5 * Dot(triangle_vertices[k], axis) : k \in 1 .. 3}
    IN  \/ obb_projection + r < SetMin(tri_projections)
        \/ SetMax(tri_projections) < obb_projection - r

\* the axes sat_check_obb_triangle tests: the box axes, the triangle normal
\* and the nine cross products, the vectors of (near) zero length left out
AxesToTest(box, triangle_vertices) ==
    LET obb_axes == box.rotation
        tri_v0 == triangle_vertices[1]
        tri_v1 == triangle_vertices[2]
        tri_v2 == triangle_vertices[3]
        tri_edges == << Sub(tri_v1, tri_v0), Sub(tri_v2, tri_v1), Sub(tri_v0, tri_v2) >>
        tri_normal == Cross(tri_edges[1], tri_edges[2])
    IN  {obb_axes[i] : i \in 1 .. 3}
        \cup {a \in {tri_normal} : Dot(a, a) > 0}
        \cup {a \in {Cross(obb_axes[i], tri_edges[j]) : i \in 1 .. 3, j \in 1 .. 3} :
                 Dot(a, a) > 0}

sat_check_obb_triangle(box, triangle_vertices) ==
    \A axis \in AxesToTest(box, triangle_vertices) :
        ~SeparatedOn(axis, box, triangle_vertices)

\* a variant that checks the excluded faces too
check_obb_mesh_collision_all_faces(box, triangles, excluded) ==
    \E i \in DOMAIN triangles : sat_check_obb_triangle(box, triangles[i])

check_obb_mesh_collision(box, triangles, excluded) ==
    \E i \in DOMAIN triangles :
        i \notin excluded /\ sat_check_obb_triangle(box, triangles[i])

SatInit ==
    /\ obb \in SatBoxes
    /\ mesh_triangles \in SatMeshes
    /\ excluded_faces \in SUBSET DOMAIN mesh_triangles
    /\ collision = FALSE /\ satStep = "input"
    /\ TopoIdle /\ ClassifyIdle /\ AutoIdle /\ PlaceIdle
    /\ DanglingIdle /\ WeldIdle /\ CacheIdle /\ FilterIdle
    /\ EdgeIdle /\ ColumnIdle /\ SingleIdle /\ ToolIdle
    /\ EventIdle

\* check_obb_mesh_collision(obb, mesh_vertices, mesh_indices, excluded_faces)
CheckObbMeshCollision ==
    /\ satStep = "input"
    /\ collision' = check_obb_mesh_collision(obb, mesh_triangles, excluded_faces)
    /\ satStep' = "checked"
    /\ UNCHANGED <<obb, mesh_triangles, excluded_faces>>
    /\ SatFrame

SatNext == CheckObbMeshCollision

SpecSat == SatInit /\ [][SatNext]_vars

\* 5 times the half width of the box's axis-aligned bounds along world axis k
HalfWidth(box, k) ==
    box.extents[1] * Abs(box.rotation[1][k]) + box.extents[2] * Abs(box.rotation[2][k])
    + box.extents[3] * Abs(box.rotation[3][k])

\* the axis-aligned bounds of the box and of the triangle are strictly apart
AabbDisjoint(box, triangle_vertices) ==
    \E k \in 1 .. 3 :
        LET coords == {5 * triangle_vertices[j][k] : j \in 1 .. 3}
        IN  \/ 5 * box.center[k] + HalfWidth(box, k) < SetMin(coords)
            \/ SetMax(coords) < 5 * box.center[k] - HalfWidth(box, k)

NonExcluded == DOMAIN mesh_triangles \ excluded_faces

\* C10: a box whose axis-aligned bounds are strictly apart from those of every
\* triangle outside the excluded set is reported as not colliding, and a reported
\* collision is always due to a face outside the excluded set.
C10_CollisionTestConservative ==
    satStep = "checked" =>
        /\ (\A i \in NonExcluded : AabbDisjoint(obb, mesh_triangles[i])) => ~collision
        /\ collision =>
              \E i \in NonExcluded : ~AabbDisjoint(obb, mesh_triangles[i])
                                     /\ sat_check_obb_triangle(obb, mesh_triangles[i])

\* a rotated box, apart from every face that counts, with an excluded face inside it
C10_Witness ==
    /\ satStep = "checked"
    /\ obb.rotation[1] = <<3, 0, 4>>
    /\ NonExcluded # {}
    /\ \A i \in NonExcluded : AabbDisjoint(obb, mesh_triangles[i])
    /\ \E i \in excluded_faces : sat_check_obb_triangle(obb, mesh_triangles[i])
    /\ ~collision

(***************************************************************************)
(* Automatic detection: the region loop of _autoDetectOverhangs            *)
(*                                                                         *)
(* Heights and sizes are in thousandths of a millimetre; products with     *)
(* 1.15 and 0.85 are rounded down.  The faces of the mesh that do not      *)
(* belong to the region are given by their world bounding boxes relative   *)
(* to the centre of the region's footprint, and by whether their normal    *)
(* is near vertical (abs(normal_y) >= horizontal_threshold): such a face   *)
(* is `blocking', any other face is a side face.                           *)
(***************************************************************************)
bottom_clearance == 10

top_clearance == 10

min_overlap == 5

overlap_slack == 20

min_clearance == 5

build_plate_y == 0

\* margin of the mid_mask test for side faces
side_margin == 10

\* while shrink_attempts < 10
max_shrink_attempts == 10

\* padded sizes are at least 1.0
min_padded_size == 1000

\* padding_factor = 1.15 for dangling regions, in percent
padding_percent == 115

\* padded_size * 0.85, in percent
shrink_percent == 85

\* the highest vertex of the mesh
mesh_max_y == 3000

RegionSizesX == {100, 2000}

RegionSizesZ == {500, 2000}

DanglingHeights == {-100, 1000}

FaceSpansX == { <<0, 50>>, <<300, 400>>, <<5000, 5100>> }

FaceSpansZ == { <<0, 50>> }

FaceSpansY == { <<200, 300>>, <<900, 1100>>, <<1500, 1600>> }

OtherFaceCatalog == [x : FaceSpansX, z : FaceSpansZ, y : FaceSpansY, blocking : BOOLEAN]

\* the sets of at most n faces of the catalog
RECURSIVE FaceSetsUpTo(_)
FaceSetsUpTo(n) ==
    IF n = 0 THEN {{}}
    ELSE LET smaller == FaceSetsUpTo(n - 1)
         IN  smaller \cup {S \cup {f} : S \in smaller, f \in OtherFaceCatalog}

OtherFaceSets == FaceSetsUpTo(MaxOtherFaces)

\* what the loop reads about one region
RegionInputs ==
    [passes_filters : BOOLEAN,
     region_size_world_x : RegionSizesX,
     region_size_world_z : RegionSizesZ,
     min_dangling_y : DanglingHeights,
     other_faces : OtherFaceSets,
     obb_collides : BOOLEAN]

\* the regions the loop is run over: a region of 2 x 2 mm, above or sunk below
\* the build plate, with or without a near-horizontal face above its footprint
LoopRegionInputs ==
    [passes_filters : BOOLEAN,
     region_size_world_x : {2000},
     region_size_world_z : {2000},
     min_dangling_y : DanglingHeights,
     other_faces : {{}, {[x |-> <<0, 50>>, z |-> <<0, 50>>, y |-> <<1500, 1600>>,
                         blocking |-> TRUE]}},
     obb_collides : BOOLEAN]

PaddedSize(region_size) == Max2(min_padded_size, (region_size * padding_percent) \div 100)

\* faces outside the region whose bounding box meets the footprint
\* [-padded_size / 2, padded_size / 2] in x and in z
OtherFacesInside(inp, padded_size_x, padded_size_z) ==
    {f \in inp.other_faces :
        /\ 2 * f.x[1] <= padded_size_x /\ 2 * f.x[2] >= 0 - padded_size_x
        /\ 2 * f.z[1] <= padded_size_z /\ 2 * f.z[2] >= 0 - padded_size_z}

\* one pass of the loop body up to the validity test (lines 2948-2991)
EvaluateSpan(inp, padded_size_x, padded_size_z) ==
    LET other == OtherFacesInside(inp, padded_size_x, padded_size_z)
        blocking == {f \in other : f.blocking}
        side == {f \in other : ~f.blocking}
        other_above == {f \in blocking : f.y[1] > inp.min_dangling_y + min_overlap}
        other_below == {f \in blocking : f.y[2] < inp.min_dangling_y - min_overlap}
        upper_limit ==
            IF other_above # {}
            THEN Min2(mesh_max_y + top_clearance,
                      SetMin({f.y[1] : f \in other_above}) - top_clearance)
            ELSE mesh_max_y + top_clearance
        lower_limit ==
            IF other_below # {}
            THEN Max2(build_plate_y, SetMax({f.y[2] : f \in other_below}) + bottom_clearance)
            ELSE build_plate_y
        base_bottom_y == Max2(build_plate_y, inp.min_dangling_y - bottom_clearance)
        bottom == Max2(base_bottom_y, lower_limit)
        top == upper_limit
        mid == {f \in side : f.y[2] > bottom + side_margin /\ f.y[1] < top - side_margin}
    IN  [top_y |-> top, bottom_y |-> bottom,
         side_intrusion |-> Cardinality(mid),
         other_above_count |-> Cardinality(other_above),
         other_below_count |-> Cardinality(other_below),
         side_min_y |-> {f.y[1] : f \in side}]

\* the test that ends the loop with a settled span (lines 2993-2997)
SpanValid(inp, e) ==
    /\ e.side_intrusion = 0
    /\ e.other_above_count = 0
    /\ e.other_below_count = 0
    /\ e.top_y >= inp.min_dangling_y + min_overlap - overlap_slack
    /\ e.bottom_y <= inp.min_dangling_y - min_overlap + overlap_slack

\* a variant that shrinks below the region's own size
ShrinkSizeNoFloor(region_size, padded_size) ==
    (padded_size * shrink_percent) \div 100

ShrinkSize(region_size, padded_size) ==
    Max2(region_size, (padded_size * shrink_percent) \div 100)

\* top_y when the footprint cannot shrink any further (lines 3016-3019)
ClampedTop(e) ==
    LET side_above_min == {y \in e.side_min_y : y > e.bottom_y + side_margin}
    IN  IF e.side_intrusion > 0 /\ side_above_min # {}
        THEN Min2(e.top_y, SetMin(side_above_min) - top_clearance)
        ELSE e.top_y

\* the shrink loop from one pass on: what it leaves behind when it ends
RECURSIVE ShrinkLoop(_, _, _, _)
ShrinkLoop(inp, padded_size_x, padded_size_z, shrink_attempts) ==
    LET e == EvaluateSpan(inp, padded_size_x, padded_size_z)
        new_size_x == ShrinkSize(inp.region_size_world_x, padded_size_x)
        new_size_z == ShrinkSize(inp.region_size_world_z, padded_size_z)
    IN  IF SpanValid(inp, e)
        THEN [exit |-> "settled", top_y |-> e.top_y, bottom_y |-> e.bottom_y,
              padded_size_x |-> padded_size_x, padded_size_z |-> padded_size_z,
              shrink_attempts |-> shrink_attempts]
        ELSE IF new_size_x = padded_size_x /\ new_size_z = padded_size_z
        THEN [exit |-> "size_floor", top_y |-> ClampedTop(e), bottom_y |-> e.bottom_y,
              padded_size_x |-> padded_size_x, padded_size_z |-> padded_size_z,
              shrink_attempts |-> shrink_attempts]
        ELSE IF shrink_attempts + 1 < max_shrink_attempts
        THEN ShrinkLoop(inp, new_size_x, new_size_z, shrink_attempts + 1)
        ELSE [exit |-> "attempts_exhausted", top_y |-> e.top_y, bottom_y |-> e.bottom_y,
              padded_size_x |-> new_size_x, padded_size_z |-> new_size_z,
              shrink_attempts |-> shrink_attempts + 1]

\* the vertical-extent solver of one dangling region (lines 2935-3036)
SolveVerticalExtent(inp) ==
    ShrinkLoop(inp, PaddedSize(inp.region_size_world_x),
               PaddedSize(inp.region_size_world_z), 0)

NoSpan ==
    [exit |-> "none", top_y |-> 0, bottom_y |-> 0,
     padded_size_x |-> 0, padded_size_z |-> 0, shrink_attempts |-> 0]

\* a variant that gives up whenever the loop has not settled
ExtentVerdictSettledOnly(inp, span) ==
    IF span.exit # "settled" THEN "top_below" ELSE "ok"

\* the tests after the loop (lines 3038-3068)
ExtentVerdict(inp, span) ==
    IF span.top_y < inp.min_dangling_y + min_overlap - overlap_slack THEN "top_below"
    ELSE IF span.bottom_y > inp.min_dangling_y - min_overlap + overlap_slack
    THEN "bottom_above"
    ELSE IF span.top_y <= span.bottom_y + min_clearance
            /\ ~(/\ span.top_y >= span.bottom_y - overlap_slack
                 /\ span.top_y >= span.bottom_y + min_clearance - overlap_slack)
    THEN "no_clearance"
    ELSE "ok"

NoValidExtent == {"top_below", "bottom_above", "no_clearance"}

SkipOutcomes == NoValidExtent \cup {"not_target", "filtered", "collision"}

\* what one pass of the region loop does with region rid (lines 2795-3105)
RegionOutcome(rid, target, dangling, inp, span) ==
    IF target # -1 /\ rid # target THEN "not_target"
    ELSE IF ~inp.passes_filters THEN "filtered"
    ELSE IF dangling /\ ExtentVerdict(inp, span) # "ok" THEN ExtentVerdict(inp, span)
    ELSE IF inp.obb_collides THEN "collision"
    ELSE "created"

\* a variant in which a skipped region ends the loop
AfterRegionBreak(rid, outcome, total) ==
    IF outcome \in SkipOutcomes THEN total ELSE rid + 1

\* `continue', or the end of the loop body: on to the next region
AfterRegion(rid, outcome, total) == rid + 1

NoRegion ==
    [input |-> [passes_filters |-> FALSE, region_size_world_x |-> 0,
                region_size_world_z |-> 0, min_dangling_y |-> 0,
                other_faces |-> {}, obb_collides |-> FALSE],
     span |-> NoSpan]

AutoInit ==
    /\ total_regions \in 1 .. MaxRegions
    /\ target_region_id \in -1 .. (total_regions - 1)
    /\ dangling_vertex_regions_active \in BOOLEAN
    /\ region_id = 0
    /\ current = NoRegion
    /\ outcomes = << >>
    /\ blockers = {}
    /\ created_count = 0
    /\ autoStep = "loop"
    /\ TopoIdle /\ ClassifyIdle /\ SatIdle /\ PlaceIdle
    /\ DanglingIdle /\ WeldIdle /\ CacheIdle /\ FilterIdle
    /\ EdgeIdle /\ ColumnIdle /\ SingleIdle /\ ToolIdle
    /\ EventIdle

\* one pass of `for region_id, region_faces in enumerate(regions)' on a region
\* drawn from `inputs'
ProcessRegionFrom(inputs) ==
    /\ autoStep = "loop"
    /\ region_id < total_regions
    /\ \E inp \in inputs :
          LET span == IF dangling_vertex_regions_active /\ inp.passes_filters
                         /\ (target_region_id = -1 \/ target_region_id = region_id)
                      THEN SolveVerticalExtent(inp) ELSE NoSpan
              outcome == RegionOutcome(region_id, target_region_id,
                                       dangling_vertex_regions_active, inp, span)
          IN  /\ current' = [input |-> inp, span |-> span]
              /\ outcomes' = Append(outcomes, outcome)
              /\ blockers' = IF outcome = "created" THEN blockers \cup {region_id}
                             ELSE blockers
              /\ created_count' = IF outcome = "created" THEN created_count + 1
                                  ELSE created_count
              /\ region_id' = AfterRegion(region_id, outcome, total_regions)
    /\ UNCHANGED <<total_regions, target_region_id, dangling_vertex_regions_active, autoStep>>
    /\ AutoFrame

\* the loop over a list of regions
ProcessRegion == ProcessRegionFrom(LoopRegionInputs)

\* the loop's pass on one dangling region with any faces around it
ProcessDanglingRegion == ProcessRegionFrom(RegionInputs)

\* the loop is over: the count is reported and the progress dialog closed
FinishAutoDetect ==
    /\ autoStep = "loop"
    /\ region_id >= total_regions
    /\ autoStep' = "done"
    /\ UNCHANGED <<total_regions, target_region_id, dangling_vertex_regions_active,
                   region_id, current, outcomes, blockers, created_count>>
    /\ AutoFrame

AutoNext ==
    \/ ProcessRegion
    \/ FinishAutoDetect

SpecAuto == AutoInit /\ [][AutoNext]_vars

\* a list of one dangling region, nothing clicked
ExtentInit ==
    /\ total_regions = 1
    /\ target_region_id = -1
    /\ dangling_vertex_regions_active = TRUE
    /\ region_id = 0
    /\ current = NoRegion
    /\ outcomes = << >>
    /\ blockers = {}
    /\ created_count = 0
    /\ autoStep = "loop"
    /\ TopoIdle /\ ClassifyIdle /\ SatIdle /\ PlaceIdle
    /\ DanglingIdle /\ WeldIdle /\ CacheIdle /\ FilterIdle
    /\ EdgeIdle /\ ColumnIdle /\ SingleIdle /\ ToolIdle
    /\ EventIdle

ExtentNext ==
    \/ ProcessDanglingRegion
    \/ FinishAutoDetect

SpecExtent == ExtentInit /\ [][ExtentNext]_vars

\* the region just processed was wanted, passed the filters, has a usable
\* vertical extent (in dangling mode) and does not collide
OwnInputsOk ==
    /\ target_region_id = -1 \/ target_region_id = region_id - 1
    /\ current.input.passes_filters
    /\ dangling_vertex_regions_active => ExtentVerdict(current.input, current.span) = "ok"
    /\ ~current.input.obb_collides

\* C8: a region skipped for a collision or for lack of a vertical extent is
\* skipped alone: every region of the list gets its pass of the loop, the
\* blockers created so far stay, and the region just processed gets its blocker
\* exactly when its own inputs allow it, whatever happened to the regions before.
C8_SkipIsLocal ==
    /\ region_id <= total_regions
    /\ Len(outcomes) = region_id
    /\ autoStep = "done" => Len(outcomes) = total_regions
    /\ blockers = {i \in 0 .. (region_id - 1) : outcomes[i + 1] = "created"}
    /\ created_count = Cardinality(blockers)
    /\ region_id > 0 => ((outcomes[region_id] = "created") <=> OwnInputsOk)

\* the first region was skipped for lack of a vertical extent, the second for a
\* collision, and the third one received its blocker
C8_Witness ==
    /\ autoStep = "done"
    /\ total_regions = 3
    /\ outcomes[1] \in NoValidExtent
    /\ outcomes[2] = "collision"
    /\ outcomes[3] = "created"
    /\ blockers = {2}

\* the region just processed went through the vertical-extent solver
ExtentSolved ==
    /\ region_id > 0
    /\ dangling_vertex_regions_active
    /\ current.span.exit # "none"

\* C9 (as stated): when no shrink attempt yields a valid span the region is
\* skipped and gets no blocker.
C9_NoValidSpanSkipsRegion ==
    (ExtentSolved /\ current.span.exit # "settled") => outcomes[region_id] # "created"

\* the span the loop left does not reach the region's lowest point within the
\* slack, or leaves no vertical clearance
SpanUnusable ==
    \/ current.span.top_y < current.input.min_dangling_y + min_overlap - overlap_slack
    \/ current.span.bottom_y > current.input.min_dangling_y - min_overlap + overlap_slack
    \/ /\ current.span.top_y <= current.span.bottom_y + min_clearance
       /\ current.span.top_y < current.span.bottom_y + min_clearance - overlap_slack

\* C9 (amended): when no shrink attempt yields a valid span, the region is skipped
\* for lack of a vertical extent exactly when the span left by the last attempt
\* misses the region's lowest point by more than the slack or leaves no clearance;
\* otherwise the region goes on to the collision check with that span and gets a
\* blocker unless its box collides.
C9_UnsettledSkipsOnlyUnusableSpan ==
    (ExtentSolved /\ current.span.exit # "settled") =>
        /\ (outcomes[region_id] \in NoValidExtent) <=> SpanUnusable
        /\ (outcomes[region_id] = "created") <=> (~SpanUnusable /\ ~current.input.obb_collides)
        /\ current.span.padded_size_x >= current.input.region_size_world_x
        /\ current.span.padded_size_z >= current.input.region_size_world_z

\* a blocking face stays above the region's own footprint: the loop ends at the
\* region's size without a valid span and the region still gets its blocker
C9_Witness ==
    /\ ExtentSolved
    /\ current.span.exit = "size_floor"
    /\ \E f \in current.input.other_faces :
          f.blocking /\ f.y[1] > current.input.min_dangling_y + min_overlap
          /\ 2 * f.x[1] <= current.input.region_size_world_x
    /\ ~SpanUnusable
    /\ outcomes[region_id] = "created"

(***************************************************************************)
(* Tip columns (createCustomSupportMeshV2)                                 *)
(*                                                                         *)
(* Coordinates are in tenths of a millimetre.  The height found under the  *)
(* tip is a quotient, kept as <<numerator, denominator>> in lowest terms   *)
(* with a positive denominator.                                            *)
(***************************************************************************)
\* tolerance = 0.5 of the bounding-box test of _find_obstruction_height
tolerance == 5

\* the gap of `y < max_y - 0.5'
obstruction_gap == 5

\* _column_taper = 0.6, in percent
column_taper_percent == 60

Sign(x) == IF x < 0 THEN -1 ELSE IF x > 0 THEN 1 ELSE 0

RECURSIVE Gcd(_, _)
Gcd(a, b) == IF b = 0 THEN a ELSE Gcd(b, a % b)

\* the quotient n / d (d # 0) in lowest terms with a positive denominator
Quotient(n, d) ==
    LET g == Gcd(Abs(n), Abs(d))
    IN  << (Sign(d) * n) \div g, Abs(d) \div g >>

QLess(p, q) == p[1] * q[2] < q[1] * p[2]

\* the height at which the vertical line through (x, z) meets the plane of the
\* face, when the face qualifies (lines 4698-4725); << >> when it does not
ObstructionAt(x, z, max_y, face) ==
    LET v0 == face[1]
        v1 == face[2]
        v2 == face[3]
        xs == {v0[1], v1[1], v2[1]}
        zs == {v0[3], v1[3], v2[3]}
        denom == (v1[3] - v2[3]) * (v0[1] - v2[1]) + (v2[1] - v1[1]) * (v0[3] - v2[3])
        a == (v1[3] - v2[3]) * (x - v2[1]) + (v2[1] - v1[1]) * (z - v2[3])
        b == (v2[3] - v0[3]) * (x - v2[1]) + (v0[1] - v2[1]) * (z - v2[3])
        c == denom - a - b
        y == a * v0[2] + b * v1[2] + c * v2[2]
        AtLeastMinusTenth(n) == 10 * n * Sign(denom) + Abs(denom) >= 0
    IN  IF \/ x < SetMin(xs) - tolerance \/ x > SetMax(xs) + tolerance
           \/ z < SetMin(zs) - tolerance \/ z > SetMax(zs) + tolerance
        THEN << >>
        ELSE IF denom = 0 THEN << >>
        ELSE IF AtLeastMinusTenth(a) /\ AtLeastMinusTenth(b) /\ AtLeastMinusTenth(c)
                /\ QLess(Quotient(y, denom), <<max_y - obstruction_gap, 1>>)
        THEN Quotient(y, denom)
        ELSE << >>

\* a variant that reports the lowest qualifying height above 0
find_lowest_obstruction_height(x, z, max_y, mesh) ==
    LET found == {ObstructionAt(x, z, max_y, face) : face \in mesh} \ {<< >>}
        above == {q \in found : q[1] > 0}
    IN  IF above = {} THEN <<0, 1>>
        ELSE CHOOSE q \in above : \A p \in above : ~QLess(p, q)

\* _find_obstruction_height: the highest qualifying height above 0, or 0
find_obstruction_height(x, z, max_y, mesh) ==
    LET found == {ObstructionAt(x, z, max_y, face) : face \in mesh} \ {<< >>}
        above == {q \in found : q[1] > 0}
    IN  IF above = {} THEN <<0, 1>>
        ELSE CHOOSE q \in above : \A p \in above : ~QLess(q, p)

NoColumn ==
    [created |-> FALSE, tip |-> <<0, 0, 0>>, base_y |-> <<0, 1>>,
     base_radius |-> 0, top_radius |-> 0]

\* _create_tip_column_mesh_v2: no mesh when the tip is at or below the base
create_tip_column_mesh_v2(tip_position, base_y, radius) ==
    IF ~QLess(base_y, <<tip_position[2], 1>>) THEN NoColumn
    ELSE [created |-> TRUE, tip |-> tip_position, base_y |-> base_y,
          base_radius |-> radius,
          top_radius |-> (radius * column_taper_percent) \div 100]

\* the source meshes: any of these faces around a tip at x = z = 0
\*   walls standing on the build plate in the planes x = 8, 16 and 40,
\*   a wall leaning from x = 8 to x = 10, and a shelf at height 20 under the tip
MeshFaceCatalog ==
    { << <<8, 0, -60>>, <<8, 0, 60>>, <<8, 200, 0>> >>,
      << <<16, 0, -60>>, <<16, 0, 60>>, <<16, 200, 0>> >>,
      << <<40, 0, -60>>, <<40, 0, 60>>, <<40, 200, 0>> >>,
      << <<8, 0, -60>>, <<8, 0, 60>>, <<10, 200, 0>> >>,
      << <<-30, 20, -30>>, <<30, 20, -30>>, <<0, 20, 40>> >> }

TipHeights == {50, 100}

\* setColumnRadius keeps the radius within 0.5 .. 10 mm; 2 mm is the default
ColumnRadii == {5, 20}

PlaceInit ==
    /\ source_mesh \in SUBSET MeshFaceCatalog
    /\ tip_pos \in {0} \X TipHeights \X {0}
    /\ column_radius \in ColumnRadii
    /\ obstruction_y = <<0, 1>>
    /\ column = NoColumn
    /\ placeStep = "input"
    /\ TopoIdle /\ ClassifyIdle /\ SatIdle /\ AutoIdle
    /\ DanglingIdle /\ WeldIdle /\ CacheIdle /\ FilterIdle
    /\ EdgeIdle /\ ColumnIdle /\ SingleIdle /\ ToolIdle
    /\ EventIdle

\* createCustomSupportMeshV2 for one tip region whose lowest vertex is tip_pos
CreateCustomSupportMeshV2 ==
    /\ placeStep = "input"
    /\ LET found == find_obstruction_height(tip_pos[1], tip_pos[3], tip_pos[2], source_mesh)
           base_y == IF found[1] > 0 THEN found ELSE <<0, 1>>
       IN  /\ obstruction_y' = found
           /\ column' = create_tip_column_mesh_v2(tip_pos, base_y, column_radius)
    /\ placeStep' = "done"
    /\ UNCHANGED <<source_mesh, tip_pos, column_radius>>
    /\ PlaceFrame

PlaceNext == CreateCustomSupportMeshV2

SpecPlace == PlaceInit /\ [][PlaceNext]_vars

\* which side of the plane through a, b, c the point p lies on
Orient(a, b, c, p) == Dot(Cross(Sub(b, a), Sub(c, a)), Sub(p, a))

\* the segment p q passes through the inside of the triangle
SegmentCrossesTriangle(p, q, tri) ==
    LET s1 == Sign(Orient(tri[1], tri[2], tri[3], p))
        s2 == Sign(Orient(tri[1], tri[2], tri[3], q))
        u1 == Sign(Orient(p, q, tri[1], tri[2]))
        u2 == Sign(Orient(p, q, tri[2], tri[3]))
        u3 == Sign(Orient(p, q, tri[3], tri[1]))
    IN  /\ s1 # 0 /\ s2 # 0 /\ s1 # s2
        /\ u1 # 0 /\ u1 = u2 /\ u2 = u3

\* edges of the column mesh at the ring vertices of angle 0, 90, 180 and 270
\* degrees (every column with a multiple of four sides has them), all
\* coordinates multiplied by the denominator d of the base height
ColumnEdges(col) ==
    LET d == col.base_y[2]
        x == col.tip[1]
        z == col.tip[3]
        bottom_center == <<d * x, col.base_y[1], d * z>>
        top_center == <<d * x, d * col.tip[2], d * z>>
        Bottom(dir) == <<d * (x + col.base_radius * dir[1]), col.base_y[1],
                         d * (z + col.base_radius * dir[2])>>
        Top(dir) == <<d * (x + col.top_radius * dir[1]), d * col.tip[2],
                      d * (z + col.top_radius * dir[2])>>
        dirs == {<<1, 0>>, <<0, 1>>, <<-1, 0>>, <<0, -1>>}
    IN  {<<bottom_center, Bottom(dir)>> : dir \in dirs}
        \cup {<<top_center, Top(dir)>> : dir \in dirs}
        \cup {<<Bottom(dir), Top(dir)>> : dir \in dirs}

\* an edge of the column mesh passes through a face of the source mesh
ColumnIntersectsMesh(col, mesh) ==
    /\ col.created
    /\ \E e \in ColumnEdges(col), face \in mesh :
          LET d == col.base_y[2]
              scaled == << <<d * face[1][1], d * face[1][2], d * face[1][3]>>,
                           <<d * face[2][1], d * face[2][2], d * face[2][3]>>,
                           <<d * face[3][1], d * face[3][2], d * face[3][3]>> >>
          IN  SegmentCrossesTriangle(e[1], e[2], scaled)

\* C7: a column whose footprint meets a side wall of the source mesh is shrunk or
\* rejected: no column that passes through a face of the source mesh is added.
C7_NoIntersectingColumnAdded ==
    placeStep = "done" => ~ColumnIntersectsMesh(column, source_mesh)

(***************************************************************************)
(* Dangling vertex regions (_findDanglingVertexRegions and the operations  *)
(* on its regions)                                                         *)
(*                                                                         *)
(* Heights are integers, in units of 0.005 mm, so that the epsilon of the  *)
(* upward expansion (dangling_height_epsilon_expand = 0.005) is 1.         *)
(***************************************************************************)
DanglingVerts == 0 .. (DanglingNumVerts - 1)

Heights == 0 .. MaxHeight

\* one winding per vertex set: vertex adjacency does not depend on the winding
DanglingTriangles ==
    {t \in DanglingVerts \X DanglingVerts \X DanglingVerts : t[1] < t[2] /\ t[2] < t[3]}

\* index arrays of 1 .. DanglingMaxFaces different faces, in ascending order
DanglingMeshes ==
    UNION { {m \in [0 .. (n - 1) -> DanglingTriangles] :
                \A i \in 0 .. (n - 2) : m[i] # m[i + 1] /\ TriLeq(m[i], m[i + 1])}
            : n \in 1 .. DanglingMaxFaces }

\* _buildVertexAdjacency(indices, vertex_count): one set of neighbours per vertex
buildVertexAdjacency(ind, vertex_count) ==
    [v \in 0 .. (vertex_count - 1) |->
        UNION { {ind[f][k] : k \in 1 .. 3} \ {v} :
                f \in {g \in DOMAIN ind : \E k \in 1 .. 3 : ind[g][k] = v} }]

\* a variant that also counts a neighbour exactly min_drop + epsilon below
HasLowerOrLevelNeighbor(adj, y, v, drop, epsilon) ==
    \E neighbor \in adj[v] : y[neighbor] <= y[v] - drop - epsilon

\* vertex_y[neighbor] < (v_y - min_drop - height_epsilon) for some neighbour
HasLowerNeighbor(adj, y, v, drop, epsilon) ==
    \E neighbor \in adj[v] : y[neighbor] < y[v] - drop - epsilon

dangling_height_epsilon_seed == 0

\* dangling_mask = eligible & ~has_lower
DanglingMask(adj, y, drop, min_y) ==
    {v \in DOMAIN y :
        y[v] > min_y /\ ~HasLowerNeighbor(adj, y, v, drop, dangling_height_epsilon_seed)}

\* the while-queue loop of _findDanglingVertexRegions
RECURSIVE DanglingBfs(_, _, _)
DanglingBfs(adj, msk, st) ==
    IF st.queue = << >> THEN st
    ELSE LET cur == Head(st.queue)
             new == {n \in adj[cur] : n \notin st.assigned /\ n \in msk}
         IN  DanglingBfs(adj, msk,
                         [queue |-> Tail(st.queue) \o Ascending(new),
                          assigned |-> st.assigned \cup new,
                          region |-> st.region \cup new])

\* `for seed in seeds' from the k-th seed on
RECURSIVE DanglingSeedLoop(_, _, _, _, _, _)
DanglingSeedLoop(adj, msk, seeds, k, assigned, regs) ==
    IF k > Len(seeds) THEN regs
    ELSE IF seeds[k] \in assigned
         THEN DanglingSeedLoop(adj, msk, seeds, k + 1, assigned, regs)
         ELSE LET st == DanglingBfs(adj, msk,
                                    [queue |-> <<seeds[k]>>,
                                     assigned |-> assigned \cup {seeds[k]},
                                     region |-> {seeds[k]}])
              IN  DanglingSeedLoop(adj, msk, seeds, k + 1, st.assigned,
                                   Append(regs, st.region))

\* _findDanglingVertexRegions: (regions, dangling_mask); no regions for a mesh
\* without vertices or without faces
findDanglingVertexRegions(y, ind, drop, min_y) ==
    LET vertex_count == Cardinality(DOMAIN y)
        adj == buildVertexAdjacency(ind, vertex_count)
        msk == DanglingMask(adj, y, drop, min_y)
    IN  IF vertex_count = 0 \/ DOMAIN ind = {}
        THEN [regions |-> << >>, mask |-> {}]
        ELSE [regions |-> DanglingSeedLoop(adj, msk, Ascending(msk), 1, {}, << >>),
              mask |-> msk]

DanglingInit ==
    /\ vertex_y \in [DanglingVerts -> Heights]
    /\ tri_indices \in DanglingMeshes
    /\ min_drop \in {0, 1}
    /\ min_face_y \in {-1, 0}
    /\ dangling_mask = {} /\ dangling_regions = << >>
    /\ seed_region = {} /\ expanded = {}
    /\ vertex_regions = << >> /\ min_vertices = 0 /\ merged = << >>
    /\ face_mask = << >> /\ face_regions = << >> /\ loose_regions = << >> /\ combined = << >>
    /\ danglingStep = "input"
    /\ TopoIdle /\ ClassifyIdle /\ SatIdle /\ AutoIdle
    /\ PlaceIdle /\ WeldIdle /\ CacheIdle /\ FilterIdle
    /\ EdgeIdle /\ ColumnIdle /\ SingleIdle /\ ToolIdle
    /\ EventIdle

\* _findDanglingVertexRegions(vertices_world, indices, min_drop, min_face_y)
FindDanglingVertexRegions ==
    /\ danglingStep = "input"
    /\ LET found == findDanglingVertexRegions(vertex_y, tri_indices, min_drop, min_face_y)
       IN  /\ dangling_regions' = found.regions
           /\ dangling_mask' = found.mask
    /\ danglingStep' = "findDanglingVertexRegions"
    /\ UNCHANGED <<vertex_y, tri_indices, min_drop, min_face_y, seed_region, expanded,
                   vertex_regions, min_vertices, merged>>
    /\ UNCHANGED <<face_mask, face_regions, loose_regions, combined>>
    /\ DanglingFrame

\* dangling_height_epsilon_expand = 0.005
dangling_height_epsilon_expand == 1

\* while changed and safety < 1000
max_expand_passes == 1000

\* the orders in which a set of vertices is iterated: ascending or descending
VisitOrders(vertex_count) ==
    {[i \in 1 .. vertex_count |-> i - 1], [i \in 1 .. vertex_count |-> vertex_count - i]}

\* the members of S in the order of the sequence `order'
RECURSIVE InOrder(_, _)
InOrder(S, order) ==
    IF order = << >> THEN << >>
    ELSE IF Head(order) \in S THEN <<Head(order)>> \o InOrder(S, Tail(order))
    ELSE InOrder(S, Tail(order))

\* the neighbours of v that are more than min_drop + height_epsilon below it
LowerNeighbors(adj, y, v, drop, epsilon) ==
    {nid \in adj[v] : y[nid] < y[v] - drop - epsilon}

\* a variant that admits a neighbour as soon as one lower neighbour is inside
AdmitsAnyLower(adj, y, neighbor, drop, epsilon, inside) ==
    \/ LowerNeighbors(adj, y, neighbor, drop, epsilon) = {}
    \/ LowerNeighbors(adj, y, neighbor, drop, epsilon) \cap inside # {}

\* all(nid in expanded for nid in lower_neighbors)
Admits(adj, y, neighbor, drop, epsilon, inside) ==
    LowerNeighbors(adj, y, neighbor, drop, epsilon) \subseteq inside

\* `for neighbor in neighbors' from the j-th neighbour on
RECURSIVE VisitNeighbors(_, _, _, _, _, _, _)
VisitNeighbors(adj, y, drop, epsilon, nbs, j, inside) ==
    IF j > Len(nbs) THEN inside
    ELSE IF nbs[j] \notin inside /\ Admits(adj, y, nbs[j], drop, epsilon, inside)
         THEN VisitNeighbors(adj, y, drop, epsilon, nbs, j + 1, inside \cup {nbs[j]})
         ELSE VisitNeighbors(adj, y, drop, epsilon, nbs, j + 1, inside)

\* `for vertex_id in list(expanded)' from the k-th vertex of the snapshot on
RECURSIVE ExpandPass(_, _, _, _, _, _, _, _)
ExpandPass(adj, y, drop, epsilon, order, snapshot, k, inside) ==
    IF k > Len(snapshot) THEN inside
    ELSE ExpandPass(adj, y, drop, epsilon, order, snapshot, k + 1,
                    VisitNeighbors(adj, y, drop, epsilon,
                                   InOrder(adj[snapshot[k]], order), 1, inside))

\* `while changed and safety < 1000'
RECURSIVE ExpandLoop(_, _, _, _, _, _, _)
ExpandLoop(adj, y, drop, epsilon, order, inside, safety) ==
    IF safety >= max_expand_passes THEN inside
    ELSE LET after == ExpandPass(adj, y, drop, epsilon, order,
                                 InOrder(inside, order), 1, inside)
         IN  IF after = inside THEN inside
             ELSE ExpandLoop(adj, y, drop, epsilon, order, after, safety + 1)

\* _expandDanglingVertexRegionUpwards; sets are iterated in the order `order'
expandDanglingVertexRegionUpwards(reg, y, adj, drop, epsilon, order) ==
    IF reg = {} THEN {}
    ELSE ExpandLoop(adj, y, drop, epsilon, order, reg, 0)

\* the expansion of one of the regions found (lines 2646-2653)
ExpandDanglingVertexRegionUpwards ==
    /\ danglingStep = "findDanglingVertexRegions"
    /\ \E idx \in DOMAIN dangling_regions,
          order \in VisitOrders(Cardinality(DOMAIN vertex_y)) :
          /\ seed_region' = dangling_regions[idx]
          /\ expanded' =
                expandDanglingVertexRegionUpwards(
                    dangling_regions[idx], vertex_y,
                    buildVertexAdjacency(tri_indices, Cardinality(DOMAIN vertex_y)),
                    min_drop, dangling_height_epsilon_expand, order)
    /\ danglingStep' = "expandDanglingVertexRegionUpwards"
    /\ UNCHANGED <<vertex_y, tri_indices, min_drop, min_face_y, dangling_mask,
                   dangling_regions, vertex_regions, min_vertices, merged>>
    /\ UNCHANGED <<face_mask, face_regions, loose_regions, combined>>
    /\ DanglingFrame

DanglingNext == FindDanglingVertexRegions

SpecDangling == DanglingInit /\ [][DanglingNext]_vars

\* meshes of five vertices for the upward expansion: two faces that share one
\* vertex, and a strip of three faces
ExpandMeshes ==
    { (0 :> <<0, 1, 2>> @@ 1 :> <<2, 3, 4>>),
      (0 :> <<0, 1, 2>> @@ 1 :> <<1, 2, 3>> @@ 2 :> <<2, 3, 4>>) }

ExpandInit ==
    /\ tri_indices \in ExpandMeshes
    /\ vertex_y \in [0 .. 4 -> Heights]
    /\ min_drop \in {0, 1}
    /\ min_face_y \in {-1, 0}
    /\ dangling_mask = {} /\ dangling_regions = << >>
    /\ seed_region = {} /\ expanded = {}
    /\ vertex_regions = << >> /\ min_vertices = 0 /\ merged = << >>
    /\ face_mask = << >> /\ face_regions = << >> /\ loose_regions = << >> /\ combined = << >>
    /\ danglingStep = "input"
    /\ TopoIdle /\ ClassifyIdle /\ SatIdle /\ AutoIdle
    /\ PlaceIdle /\ WeldIdle /\ CacheIdle /\ FilterIdle
    /\ EdgeIdle /\ ColumnIdle /\ SingleIdle /\ ToolIdle
    /\ EventIdle

ExpandNext ==
    \/ FindDanglingVertexRegions
    \/ ExpandDanglingVertexRegionUpwards

SpecExpand == ExpandInit /\ [][ExpandNext]_vars

\* two vertices are adjacent when a face uses both
VertexLinks(ind, among) ==
    {p \in among \X among :
        p[1] # p[2] /\ \E f \in DOMAIN ind : {p[1], p[2]} \subseteq {ind[f][k] : k \in 1 .. 3}}

\* above min_face_y and no adjacent vertex at height <= own height - min_drop
LocallyLowestAtOrBelow ==
    {v \in DOMAIN vertex_y :
        /\ vertex_y[v] > min_face_y
        /\ ~\E p \in VertexLinks(tri_indices, DOMAIN vertex_y) :
               p[1] = v /\ vertex_y[p[2]] <= vertex_y[v] - min_drop}

\* above min_face_y and no adjacent vertex at height < own height - min_drop
LocallyLowestStrictlyBelow ==
    {v \in DOMAIN vertex_y :
        /\ vertex_y[v] > min_face_y
        /\ ~\E p \in VertexLinks(tri_indices, DOMAIN vertex_y) :
               p[1] = v /\ vertex_y[p[2]] < vertex_y[v] - min_drop}

DanglingRegionSets == Range(dangling_regions)

DanglingRegionsArePartitionOf(S) ==
    /\ \A i, j \in DOMAIN dangling_regions :
          i # j => dangling_regions[i] \cap dangling_regions[j] = {}
    /\ UNION DanglingRegionSets = S

\* C11 (as stated): the regions are the connected components of the vertices
\* that are above minHeight and have no adjacent vertex at height <= own height
\* - minDrop; they are pairwise disjoint and cover these vertices.
C11_ComponentsOfLowestAtOrBelow ==
    danglingStep = "findDanglingVertexRegions" =>
        /\ DanglingRegionSets =
              Components(LocallyLowestAtOrBelow,
                         VertexLinks(tri_indices, LocallyLowestAtOrBelow))
        /\ DanglingRegionsArePartitionOf(LocallyLowestAtOrBelow)

\* C11 (amended): the regions are the connected components of the vertices that
\* are above minHeight and have no adjacent vertex strictly below own height -
\* minDrop (a neighbour exactly minDrop lower, or level when minDrop is 0, does
\* not count); they are pairwise disjoint and cover these vertices.
C11_ComponentsOfLowestStrictlyBelow ==
    danglingStep = "findDanglingVertexRegions" =>
        /\ dangling_mask = LocallyLowestStrictlyBelow
        /\ DanglingRegionSets =
              Components(LocallyLowestStrictlyBelow,
                         VertexLinks(tri_indices, LocallyLowestStrictlyBelow))
        /\ DanglingRegionsArePartitionOf(LocallyLowestStrictlyBelow)

\* two regions are returned, one of them of two level vertices, next to a
\* vertex that is not locally lowest
C11_Witness ==
    /\ danglingStep = "findDanglingVertexRegions"
    /\ min_drop = 0
    /\ Len(dangling_regions) = 2
    /\ \E i \in DOMAIN dangling_regions :
          \E u, v \in dangling_regions[i] : u # v /\ vertex_y[u] = vertex_y[v]
    /\ \E v \in DOMAIN vertex_y : vertex_y[v] > min_face_y /\ v \notin dangling_mask

\* the neighbours of v that the expansion's drop test counts as lower
LowerNeighborsOf(v) ==
    {p[2] : p \in {q \in VertexLinks(tri_indices, DOMAIN vertex_y) :
                      /\ q[1] = v
                      /\ vertex_y[q[2]] <
                            vertex_y[v] - min_drop - dangling_height_epsilon_expand}}

\* the vertices outside S that are adjacent to a vertex of S
NeighborsOutside(S) ==
    {p[2] : p \in {q \in VertexLinks(tri_indices, DOMAIN vertex_y) :
                      q[1] \in S /\ q[2] \notin S}}

\* the least set that contains S and every neighbouring vertex whose lower
\* neighbours are all inside
RECURSIVE AdmissionClosure(_)
AdmissionClosure(S) ==
    LET T == S \cup {v \in NeighborsOutside(S) : LowerNeighborsOf(v) \subseteq S}
    IN  IF T = S THEN S ELSE AdmissionClosure(T)

RegionIdOf(regs, v) ==
    LET ids == {i \in DOMAIN regs : v \in regs[i]}
    IN  IF ids = {} THEN 0 ELSE SetMax(ids)

\* region_neighbors[region_a]
RegionNeighbors(regs, adj, region_a) ==
    {RegionIdOf(regs, n) :
        n \in UNION {adj[v] : v \in {w \in DOMAIN adj : RegionIdOf(regs, w) = region_a}}}
    \ {0, region_a}

RECURSIVE FindRoot(_, _)
FindRoot(parent, i) == IF parent[i] = i THEN i ELSE FindRoot(parent, parent[i])

\* a variant that picks the smallest neighbour
SmallestNeighbor(regs, neighbors) ==
    LET least == SetMin({Cardinality(regs[n]) : n \in neighbors})
    IN  SetMin({n \in neighbors : Cardinality(regs[n]) = least})

\* max(neighbors, key=lambda n: region_sizes[n]): the first of the largest
BestNeighbor(regs, neighbors) ==
    LET largest == SetMax({Cardinality(regs[n]) : n \in neighbors})
    IN  SetMin({n \in neighbors : Cardinality(regs[n]) = largest})

\* `for idx, is_small in enumerate(small)' from region idx on
RECURSIVE UnionLoop(_, _, _, _, _)
UnionLoop(regs, adj, floor, idx, parent) ==
    IF idx > Len(regs) THEN parent
    ELSE LET neighbors == RegionNeighbors(regs, adj, idx)
         IN  IF Cardinality(regs[idx]) >= floor \/ neighbors = {}
             THEN UnionLoop(regs, adj, floor, idx + 1, parent)
             ELSE LET ra == FindRoot(parent, idx)
                      rb == FindRoot(parent, BestNeighbor(regs, neighbors))
                  IN  UnionLoop(regs, adj, floor, idx + 1,
                                IF ra # rb THEN [parent EXCEPT ![rb] = ra] ELSE parent)

\* the keys of `merged' in insertion order
RECURSIVE RootsInOrder(_, _, _)
RootsInOrder(parent, idx, roots) ==
    IF idx > Len(parent) THEN roots
    ELSE LET root == FindRoot(parent, idx)
         IN  RootsInOrder(parent, idx + 1,
                          IF InSeq(root, roots) THEN roots ELSE Append(roots, root))

\* _mergeSmallDanglingRegions(regions, adjacency, min_vertices)
mergeSmallDanglingRegions(regs, adj, floor) ==
    IF regs = << >> THEN regs
    ELSE LET parent == UnionLoop(regs, adj, floor, 1, [i \in 1 .. Len(regs) |-> i])
             roots == RootsInOrder(parent, 1, << >>)
         IN  [k \in 1 .. Len(roots) |->
                 UNION {regs[i] : i \in {j \in 1 .. Len(regs) :
                                            FindRoot(parent, j) = roots[k]}}]

\* the lists of n pairwise disjoint non-empty regions of vertices of S
RECURSIVE DisjointRegionLists(_, _)
DisjointRegionLists(S, n) ==
    IF n = 0 THEN {<< >>}
    ELSE UNION { {<<first>> \o rest : rest \in DisjointRegionLists(S \ first, n - 1)} :
                 first \in (SUBSET S) \ {{}} }

\* meshes of six vertices for the merge: a strip of four faces, and two faces
\* that share one vertex next to a vertex that no face uses
MergeMeshes ==
    { (0 :> <<0, 1, 2>> @@ 1 :> <<1, 2, 3>> @@ 2 :> <<2, 3, 4>> @@ 3 :> <<3, 4, 5>>),
      (0 :> <<0, 1, 2>> @@ 1 :> <<2, 3, 4>>) }

MergeInit ==
    /\ tri_indices \in MergeMeshes
    /\ vertex_y = [v \in 0 .. 5 |-> 0]
    /\ min_drop = 0 /\ min_face_y = 0
    /\ dangling_mask = {} /\ dangling_regions = << >>
    /\ seed_region = {} /\ expanded = {}
    /\ vertex_regions \in UNION {DisjointRegionLists(0 .. 5, n) : n \in 1 .. MaxMergeRegions}
    /\ min_vertices \in {2, 3}
    /\ merged = << >>
    /\ face_mask = << >> /\ face_regions = << >> /\ loose_regions = << >> /\ combined = << >>
    /\ danglingStep = "input"
    /\ TopoIdle /\ ClassifyIdle /\ SatIdle /\ AutoIdle
    /\ PlaceIdle /\ WeldIdle /\ CacheIdle /\ FilterIdle
    /\ EdgeIdle /\ ColumnIdle /\ SingleIdle /\ ToolIdle
    /\ EventIdle

\* _mergeSmallDanglingRegions(regions, vertex_adjacency, min_vertices)
MergeSmallDanglingRegions ==
    /\ danglingStep = "input"
    /\ merged' = mergeSmallDanglingRegions(
                     vertex_regions,
                     buildVertexAdjacency(tri_indices, Cardinality(DOMAIN vertex_y)),
                     min_vertices)
    /\ danglingStep' = "mergeSmallDanglingRegions"
    /\ UNCHANGED <<vertex_y, tri_indices, min_drop, min_face_y, dangling_mask,
                   dangling_regions, seed_region, expanded, vertex_regions, min_vertices>>
    /\ UNCHANGED <<face_mask, face_regions, loose_regions, combined>>
    /\ DanglingFrame

MergeNext == MergeSmallDanglingRegions

SpecMerge == MergeInit /\ [][MergeNext]_vars

\* regions i and j have adjacent vertices
RegionsAdjacent(i, j) ==
    /\ i # j
    /\ \E p \in VertexLinks(tri_indices, DOMAIN vertex_y) :
          p[1] \in vertex_regions[i] /\ p[2] \in vertex_regions[j]

AdjacentRegions(i) == {j \in DOMAIN vertex_regions : RegionsAdjacent(i, j)}

SmallRegion(i) == Cardinality(vertex_regions[i]) < min_vertices

\* input regions i and j lie in the same output region
MergedTogether(i, j) ==
    \E k \in DOMAIN merged : vertex_regions[i] \cup vertex_regions[j] \subseteq merged[k]

\* C13: every region below the floor that has an adjacent region lies in the
\* same output region as a largest of its adjacent regions; a region at or above
\* the floor is returned unchanged unless a small neighbour lies in the same
\* output region, and is never put together with another region at or above the
\* floor; a small region with no adjacent region is returned unchanged; the
\* output regions are pairwise disjoint and cover exactly the input vertices.
C13_SmallRegionsJoinLargestNeighbour ==
    danglingStep = "mergeSmallDanglingRegions" =>
        /\ \A i \in DOMAIN vertex_regions :
              (SmallRegion(i) /\ AdjacentRegions(i) # {}) =>
                  \E j \in AdjacentRegions(i) :
                     /\ \A h \in AdjacentRegions(i) :
                           Cardinality(vertex_regions[h]) <= Cardinality(vertex_regions[j])
                     /\ MergedTogether(i, j)
        /\ \A i \in DOMAIN vertex_regions :
              ~SmallRegion(i) =>
                  /\ (\A j \in AdjacentRegions(i) : ~(SmallRegion(j) /\ MergedTogether(i, j)))
                        => vertex_regions[i] \in Range(merged)
                  /\ \A j \in DOMAIN vertex_regions :
                        (j # i /\ ~SmallRegion(j)) => ~MergedTogether(i, j)
        /\ \A i \in DOMAIN vertex_regions :
              (SmallRegion(i) /\ AdjacentRegions(i) = {}) => vertex_regions[i] \in Range(merged)
        /\ \A k, l \in DOMAIN merged : k # l => merged[k] \cap merged[l] = {}
        /\ UNION Range(merged) = UNION Range(vertex_regions)

\* a small region with a smaller and a larger neighbour has joined the larger
\* one, which is at or above the floor, and not the smaller one
C13_Witness ==
    /\ danglingStep = "mergeSmallDanglingRegions"
    /\ \E i, j, h \in DOMAIN vertex_regions :
          /\ SmallRegion(i) /\ ~SmallRegion(j)
          /\ {j, h} \subseteq AdjacentRegions(i)
          /\ Cardinality(vertex_regions[h]) < Cardinality(vertex_regions[j])
          /\ MergedTogether(i, j) /\ ~MergedTogether(i, h)


(***************************************************************************)
(* Face regions of vertex regions (_danglingVertexRegionsToFaceRegions)    *)
(*                                                                         *)
(* Regions are numbered from 1 and region id 0 stands for the source's -1. *)
(* A face list is the sequence of face ids in the order of the face loop.  *)
(***************************************************************************)
InSomeRegion(rid) == rid > 0

\* region_ids.count(rid)
CountOf(region_ids, rid) == Cardinality({k \in DOMAIN region_ids : region_ids[k] = rid})

\* max(set(region_ids), key=region_ids.count): a set of small integers is walked
\* in ascending order and max keeps the first of the greatest
PickRegion(region_ids) ==
    LET best == SetMax({CountOf(region_ids, r) : r \in Range(region_ids)})
    IN  SetMin({r \in Range(region_ids) : CountOf(region_ids, r) = best})

\* rid >= 0 and rid == region_id[v1] == region_id[v2]
StrictFace(regs, face) ==
    /\ RegionIdOf(regs, face[1]) > 0
    /\ RegionIdOf(regs, face[1]) = RegionIdOf(regs, face[2])
    /\ RegionIdOf(regs, face[2]) = RegionIdOf(regs, face[3])

\* the face loop from face_id on: <<face_regions, loose_regions>>
RECURSIVE FaceLoop(_, _, _, _, _, _)
FaceLoop(regs, ind, fmask, face_id, strict, loose) ==
    IF face_id \notin DOMAIN ind THEN <<strict, loose>>
    ELSE IF fmask # << >> /\ ~fmask[face_id]
    THEN FaceLoop(regs, ind, fmask, face_id + 1, strict, loose)
    ELSE LET face == ind[face_id]
             rid == RegionIdOf(regs, face[1])
             region_ids == SelectSeq(<<RegionIdOf(regs, face[1]), RegionIdOf(regs, face[2]),
                                       RegionIdOf(regs, face[3])>>, InSomeRegion)
         IN  IF StrictFace(regs, face)
             THEN FaceLoop(regs, ind, fmask, face_id + 1,
                           [strict EXCEPT ![rid] = Append(@, face_id)], loose)
             ELSE IF region_ids = << >>
             THEN FaceLoop(regs, ind, fmask, face_id + 1, strict, loose)
             ELSE FaceLoop(regs, ind, fmask, face_id + 1, strict,
                           [loose EXCEPT ![PickRegion(region_ids)] = Append(@, face_id)])

\* what a region adds to combined, were the loose faces taken along with the strict
CombinedStrictAndLoose(region_faces, loose_faces) ==
    IF region_faces \o loose_faces # << >> THEN << region_faces \o loose_faces >> ELSE << >>

\* what a region adds to combined: its strict faces, or else its loose faces
CombinedEntry(region_faces, loose_faces) ==
    IF region_faces # << >> THEN <<region_faces>>
    ELSE IF loose_faces # << >> THEN <<loose_faces>>
    ELSE << >>

RECURSIVE CombineLoop(_, _, _)
CombineLoop(strict, loose, idx) ==
    IF idx > Len(strict) THEN << >>
    ELSE CombinedEntry(strict[idx], loose[idx]) \o CombineLoop(strict, loose, idx + 1)

\* [face_regions, loose_regions, combined] of the conversion
danglingVertexRegionsToFaceRegions(regs, ind, fmask) ==
    IF regs = << >> \/ DOMAIN ind = {}
    THEN [face_regions |-> << >>, loose_regions |-> << >>, combined |-> << >>]
    ELSE LET lists == FaceLoop(regs, ind, fmask, 0,
                               [i \in DOMAIN regs |-> << >>], [i \in DOMAIN regs |-> << >>])
         IN  [face_regions |-> lists[1], loose_regions |-> lists[2],
              combined |-> CombineLoop(lists[1], lists[2], 1)]

FaceRegionsInit ==
    /\ tri_indices \in ExpandMeshes
    /\ vertex_y = [v \in 0 .. 4 |-> 0]
    /\ min_drop = 0 /\ min_face_y = 0
    /\ dangling_mask = {} /\ dangling_regions = << >>
    /\ seed_region = {} /\ expanded = {}
    /\ vertex_regions \in UNION {DisjointRegionLists(0 .. 4, n) : n \in 0 .. MaxMergeRegions}
    /\ min_vertices = 0 /\ merged = << >>
    /\ face_mask \in {<< >>} \cup [DOMAIN tri_indices -> BOOLEAN]
    /\ face_regions = << >> /\ loose_regions = << >> /\ combined = << >>
    /\ danglingStep = "input"
    /\ TopoIdle /\ ClassifyIdle /\ SatIdle /\ AutoIdle
    /\ PlaceIdle /\ WeldIdle /\ CacheIdle /\ FilterIdle
    /\ EdgeIdle /\ ColumnIdle /\ SingleIdle /\ ToolIdle
    /\ EventIdle

\* _danglingVertexRegionsToFaceRegions(vertex_regions, indices, face_mask)
DanglingVertexRegionsToFaceRegions ==
    /\ danglingStep = "input"
    /\ LET result == danglingVertexRegionsToFaceRegions(vertex_regions, tri_indices, face_mask)
       IN  /\ face_regions' = result.face_regions
           /\ loose_regions' = result.loose_regions
           /\ combined' = result.combined
    /\ danglingStep' = "danglingVertexRegionsToFaceRegions"
    /\ UNCHANGED <<vertex_y, tri_indices, min_drop, min_face_y, dangling_mask,
                   dangling_regions, seed_region, expanded, vertex_regions, min_vertices,
                   merged, face_mask>>
    /\ DanglingFrame

FaceRegionsNext == DanglingVertexRegionsToFaceRegions

SpecFaceRegions == FaceRegionsInit /\ [][FaceRegionsNext]_vars

\* face f is in the candidate mask
CandidateFace(f) == face_mask = << >> \/ face_mask[f]

\* the candidate faces whose three vertices all belong to region i
StrictFacesOf(i) ==
    {f \in DOMAIN tri_indices : CandidateFace(f) /\ Range(tri_indices[f]) \subseteq vertex_regions[i]}

\* how many corners of face f belong to region i
VotesFor(f, i) == Cardinality({k \in 1 .. 3 : tri_indices[f][k] \in vertex_regions[i]})

\* the faces that a region hands over: its strict faces, or failing any, its loose ones
AssignedFaces(i) ==
    IF StrictFacesOf(i) # {} THEN StrictFacesOf(i) ELSE Range(loose_regions[i])

RECURSIVE SumOfLengths(_)
SumOfLengths(lists) ==
    IF lists = << >> THEN 0 ELSE Len(Head(lists)) + SumOfLengths(Tail(lists))

\* C14: the strict faces of a region are the candidate faces with all three
\* vertices in it; a loose face of a region is a candidate face that is strict
\* for no region and has no more corners in any other region than in this one;
\* a region returns its strict faces, and its loose faces only when it has no
\* strict face; no returned face is outside the candidate mask and no face is
\* returned twice.
C14_StrictFacesElseLooseFaces ==
    danglingStep = "danglingVertexRegionsToFaceRegions" /\ vertex_regions # << >> =>
        /\ \A i \in DOMAIN vertex_regions :
              /\ Range(face_regions[i]) = StrictFacesOf(i)
              /\ \A f \in Range(loose_regions[i]) :
                    /\ CandidateFace(f)
                    /\ \A j \in DOMAIN vertex_regions : f \notin StrictFacesOf(j)
                    /\ VotesFor(f, i) >= 1
                    /\ \A j \in DOMAIN vertex_regions : VotesFor(f, j) <= VotesFor(f, i)
        /\ {Range(combined[k]) : k \in DOMAIN combined}
              = {AssignedFaces(i) : i \in DOMAIN vertex_regions} \ {{}}
        /\ \A k \in DOMAIN combined : \A f \in Range(combined[k]) : CandidateFace(f)
        /\ SumOfLengths(combined)
              = Cardinality(UNION {Range(combined[k]) : k \in DOMAIN combined})

\* one region returns a strict face and drops a loose one, another region, with
\* no strict face, returns a loose face
C14_Witness ==
    /\ danglingStep = "danglingVertexRegionsToFaceRegions"
    /\ \E i, j \in DOMAIN vertex_regions :
          /\ face_regions[i] # << >> /\ loose_regions[i] # << >>
          /\ face_regions[j] = << >> /\ loose_regions[j] # << >>
          /\ Range(loose_regions[j]) \in {Range(combined[k]) : k \in DOMAIN combined}
          /\ Range(loose_regions[i]) \cap UNION {Range(combined[k]) : k \in DOMAIN combined} = {}


(***************************************************************************)
(* Welding (_rebuildIndexedMesh, _meshNeedsIndexRebuild and the part of    *)
(* _getCachedMeshData that applies them)                                   *)
(***************************************************************************)
\* numpy.round(x): the nearest integer, a half going to the even neighbour; x = n / 2
RoundHalfEven(n) ==
    IF n % 2 = 0 THEN n \div 2
    ELSE IF ((n - 1) \div 2) % 2 = 0 THEN (n - 1) \div 2 ELSE (n + 1) \div 2

\* v_key = tuple(numpy.round(v / tolerance) * tolerance), in units of half the tolerance
VertexKey(v) == RoundHalfEven(v) * 2

\* vertex_map[v_key], 0 when the key is not in the map; unique vertices count from 1 here
VertexMapGet(unique_vertices, v_key) ==
    LET hits == {k \in DOMAIN unique_vertices : VertexKey(unique_vertices[k]) = v_key}
    IN  IF hits = {} THEN 0 ELSE SetMin(hits)

\* the loops of _rebuildIndexedMesh from raw vertex i on (i counts from 1);
\* triangle_indices holds the 0-based indices of the triangle being read
RECURSIVE RebuildLoop(_, _, _, _, _)
RebuildLoop(vertices, i, unique_vertices, rebuilt, triangle_indices) ==
    IF i > Len(vertices) THEN [vertices |-> unique_vertices, indices |-> rebuilt]
    ELSE LET hit == VertexMapGet(unique_vertices, VertexKey(vertices[i]))
             vertex_idx == IF hit # 0 THEN hit - 1 ELSE Len(unique_vertices)
             uniq == IF hit # 0 THEN unique_vertices ELSE Append(unique_vertices, vertices[i])
             tri == Append(triangle_indices, vertex_idx)
         IN  IF Len(tri) = 3
             THEN RebuildLoop(vertices, i + 1, uniq, Append(rebuilt, tri), << >>)
             ELSE RebuildLoop(vertices, i + 1, uniq, rebuilt, tri)

rebuildIndexedMesh(vertices) == RebuildLoop(vertices, 1, << >>, << >>, << >>)

\* usage = numpy.bincount(flat_indices, minlength=len(vertices))
Usage(vertices, mesh_indices, v) ==
    Cardinality({<<f, k>> \in (DOMAIN mesh_indices) \X (1 .. 3) : mesh_indices[f][k] = v})

meshNeedsIndexRebuild(vertices, mesh_indices) ==
    IF Len(vertices) = 0 \/ Len(mesh_indices) = 0 THEN FALSE
    ELSE \A v \in 0 .. Len(vertices) - 1 : Usage(vertices, mesh_indices, v) <= 1

\* vertices_local[expanded_vertices]
ExpandedVertices(vertices, mesh_indices) ==
    [n \in 1 .. 3 * Len(mesh_indices) |->
        vertices[mesh_indices[((n - 1) \div 3) + 1][((n - 1) % 3) + 1] + 1]]

\* the vertices, indices and reindexed of the cache entry built for mesh_data,
\* a mesh with vertices
weld(mesh_data) ==
    IF ~mesh_data.has_indices
    THEN [reindexed |-> TRUE] @@ rebuildIndexedMesh(mesh_data.vertices)
    ELSE IF meshNeedsIndexRebuild(mesh_data.vertices, mesh_data.indices)
    THEN [reindexed |-> TRUE]
         @@ rebuildIndexedMesh(ExpandedVertices(mesh_data.vertices, mesh_data.indices))
    ELSE [reindexed |-> FALSE, vertices |-> mesh_data.vertices, indices |-> mesh_data.indices]

RECURSIVE SeqsUpTo(_, _)
SeqsUpTo(S, n) ==
    IF n = 0 THEN {<< >>}
    ELSE SeqsUpTo(S, n - 1) \cup {Append(s, x) : s \in {t \in SeqsUpTo(S, n - 1) : Len(t) = n - 1}, x \in S}

\* a node whose mesh data is a raw vertex array without indices
WeldInit ==
    /\ raw_mesh \in {[vertices |-> vs, indices |-> << >>, has_indices |-> FALSE] :
                        vs \in SeqsUpTo(0 .. MaxCoord, MaxRawVertices)}
    /\ welded = << >> /\ rewelded = << >>
    /\ weldStep = "input"
    /\ TopoIdle /\ ClassifyIdle /\ SatIdle /\ AutoIdle
    /\ PlaceIdle /\ DanglingIdle /\ CacheIdle /\ FilterIdle
    /\ EdgeIdle /\ ColumnIdle /\ SingleIdle /\ ToolIdle
    /\ EventIdle

\* the weld of the raw mesh; a mesh without vertices gets no cache entry
Weld ==
    /\ weldStep = "input"
    /\ IF Len(raw_mesh.vertices) = 0
       THEN welded' = << >> /\ weldStep' = "None"
       ELSE welded' = weld(raw_mesh) /\ weldStep' = "welded"
    /\ UNCHANGED <<raw_mesh, rewelded>>
    /\ WeldFrame

\* the weld of the mesh that the first weld returned
WeldAgain ==
    /\ weldStep = "welded"
    /\ rewelded' = weld([vertices |-> welded.vertices, indices |-> welded.indices,
                         has_indices |-> TRUE])
    /\ weldStep' = "rewelded"
    /\ UNCHANGED <<raw_mesh, welded>>
    /\ WeldFrame

WeldNext == Weld \/ WeldAgain

SpecWeld == WeldInit /\ [][WeldNext]_vars

\* C15: welding the result of a weld again gives the same number of vertices
\* and the same triangles.
C15_WeldIsIdempotent ==
    weldStep = "rewelded" =>
        /\ Len(rewelded.vertices) = Len(welded.vertices)
        /\ rewelded.indices = welded.indices


(***************************************************************************)
(* Mesh cache (_getCachedMeshData, _getCachedFaceAdjacency,                *)
(* _getCachedVertexAdjacency)                                              *)
(*                                                                         *)
(* id(mesh_data) is the address of the MeshData object.  An address is in  *)
(* use while a node holds the object; a new object is placed at an address *)
(* that is not in use, which may be the address of an object that was      *)
(* dropped before.  The nodes themselves stay alive.  The entry's normals  *)
(* and face centres are functions of its vertices and indices and are left *)
(* out; face_builds and vertex_builds count the builds of the entry's      *)
(* adjacency graphs.                                                       *)
(***************************************************************************)
CacheNodes == {1, 2}

Addresses == {1, 2}

\* mesh data: two indexed meshes over the same four vertices, a triangle soup
\* of six vertices, and a mesh without vertices
CacheMeshes ==
    { [vertices |-> <<0, 2, 3, 6>>, indices |-> << <<0, 1, 2>>, <<1, 2, 3>> >>,
       has_indices |-> TRUE],
      [vertices |-> <<0, 2, 3, 6>>, indices |-> << <<0, 1, 2>>, <<0, 2, 3>> >>,
       has_indices |-> TRUE],
      [vertices |-> <<0, 2, 3, 3, 2, 6>>, indices |-> << >>, has_indices |-> FALSE],
      [vertices |-> << >>, indices |-> << >>, has_indices |-> FALSE] }

\* the addresses of the objects that nodes hold
AddressesInUse(meshes) == {meshes[n][1].id : n \in {k \in DOMAIN meshes : meshes[k] # << >>}}

\* one object per address
OneObjectPerAddress(meshes) ==
    \A n1, n2 \in DOMAIN meshes :
        meshes[n1] # << >> /\ meshes[n2] # << >> /\ meshes[n1][1].id = meshes[n2][1].id
            => meshes[n1] = meshes[n2]

\* the entry that _getCachedMeshData builds for mesh_data
NewCacheEntry(mesh_data) ==
    LET rebuilt == weld(mesh_data.data)
    IN  [mesh_data_id |-> mesh_data.id,
         vertex_count |-> Len(mesh_data.data.vertices),
         vertices_local |-> rebuilt.vertices,
         indices |-> rebuilt.indices,
         reindexed |-> rebuilt.reindexed,
         face_adjacency |-> << >>,
         vertex_adjacency |-> << >>,
         face_builds |-> 0,
         vertex_builds |-> 0]

\* the plugin starts with an empty cache
CacheInit ==
    /\ node_mesh \in [CacheNodes -> {<< >>} \cup
                         {<<[id |-> a, data |-> m]>> : a \in Addresses, m \in CacheMeshes}]
    /\ OneObjectPerAddress(node_mesh)
    /\ mesh_cache = [n \in CacheNodes |-> << >>]
    /\ called_node = 0 /\ reused = FALSE
    /\ cacheStep = "input"
    /\ TopoIdle /\ ClassifyIdle /\ SatIdle /\ AutoIdle
    /\ PlaceIdle /\ DanglingIdle /\ WeldIdle /\ FilterIdle
    /\ EdgeIdle /\ ColumnIdle /\ SingleIdle /\ ToolIdle
    /\ EventIdle

\* node.setMeshData: the node drops its mesh data, shares the object of another
\* node, or gets a new object at an address that is not in use
SetMeshData ==
    \E node \in CacheNodes :
        \E new \in {<< >>} \cup {<<[id |-> a, data |-> m]>> : a \in Addresses, m \in CacheMeshes} :
            /\ new # node_mesh[node]
            /\ IF new = << >> THEN TRUE
               ELSE \/ \E other \in CacheNodes \ {node} : new = node_mesh[other]
                    \/ new[1].id \notin AddressesInUse(node_mesh)
            /\ node_mesh' = [node_mesh EXCEPT ![node] = new]
            /\ cacheStep' = "setMeshData"
            /\ UNCHANGED <<mesh_cache, called_node, reused>>
            /\ CacheFrame

\* _getCachedMeshData(node)
GetCachedMeshData ==
    \E node \in CacheNodes :
        /\ called_node' = node
        /\ UNCHANGED node_mesh
        /\ IF node_mesh[node] = << >>
           THEN cacheStep' = "None" /\ reused' = FALSE /\ UNCHANGED mesh_cache
           ELSE LET mesh_data == node_mesh[node][1]
                    vertex_count == Len(mesh_data.data.vertices)
                    cache == mesh_cache[node]
                IN  IF /\ cache # << >>
                       /\ cache[1].mesh_data_id = mesh_data.id
                       /\ cache[1].vertex_count = vertex_count
                    THEN cacheStep' = "getCachedMeshData" /\ reused' = TRUE
                         /\ UNCHANGED mesh_cache
                    ELSE IF Len(mesh_data.data.vertices) = 0
                    THEN cacheStep' = "None" /\ reused' = FALSE /\ UNCHANGED mesh_cache
                    ELSE /\ mesh_cache' = [mesh_cache EXCEPT ![node] = <<NewCacheEntry(mesh_data)>>]
                         /\ cacheStep' = "getCachedMeshData" /\ reused' = FALSE
        /\ CacheFrame

\* the detection call holds the entry that _getCachedMeshData returned
HoldsEntry == cacheStep \in {"getCachedMeshData", "getCachedFaceAdjacency", "getCachedVertexAdjacency"}

\* _getCachedFaceAdjacency(cache); faces count from 1 here
GetCachedFaceAdjacency ==
    /\ HoldsEntry
    /\ LET cache == mesh_cache[called_node][1]
       IN  mesh_cache' =
               IF cache.face_adjacency = << >>
               THEN [mesh_cache EXCEPT ![called_node] =
                        <<[cache EXCEPT !.face_adjacency = <<buildAdjacencyGraph(cache.indices)>>,
                                        !.face_builds = @ + 1]>>]
               ELSE mesh_cache
    /\ cacheStep' = "getCachedFaceAdjacency"
    /\ UNCHANGED <<node_mesh, called_node, reused>>
    /\ CacheFrame

\* _getCachedVertexAdjacency(cache, len(vertices_world))
GetCachedVertexAdjacency ==
    /\ HoldsEntry
    /\ LET cache == mesh_cache[called_node][1]
       IN  mesh_cache' =
               IF cache.vertex_adjacency = << >>
               THEN [mesh_cache EXCEPT ![called_node] =
                        <<[cache EXCEPT !.vertex_adjacency =
                                            <<buildVertexAdjacency(cache.indices,
                                                                   Len(cache.vertices_local))>>,
                                        !.vertex_builds = @ + 1]>>]
               ELSE mesh_cache
    /\ cacheStep' = "getCachedVertexAdjacency"
    /\ UNCHANGED <<node_mesh, called_node, reused>>
    /\ CacheFrame

CacheNext ==
    \/ SetMeshData
    \/ GetCachedMeshData
    \/ GetCachedFaceAdjacency
    \/ GetCachedVertexAdjacency

SpecCache == CacheInit /\ [][CacheNext]_vars

\* the entry describes the mesh data: its vertices and indices are the weld of
\* the data and an adjacency graph that has been built is the graph of these indices
Describes(entry, data) ==
    /\ entry.vertices_local = weld(data).vertices
    /\ entry.indices = weld(data).indices
    /\ entry.reindexed = weld(data).reindexed
    /\ entry.face_adjacency # << >> =>
          entry.face_adjacency[1] = buildAdjacencyGraph(weld(data).indices)
    /\ entry.vertex_adjacency # << >> =>
          entry.vertex_adjacency[1]
              = buildVertexAdjacency(weld(data).indices, Len(weld(data).vertices))

\* C16: the entry held after a call for a node describes the node's current
\* mesh data; it was reused only if it carries the id and the vertex count of
\* that mesh data; an entry that was not reused has no adjacency graph right
\* after the call; and no adjacency graph of an entry is built twice.
C16_EntryDescribesCurrentMesh ==
    /\ HoldsEntry =>
          /\ Describes(mesh_cache[called_node][1], node_mesh[called_node][1].data)
          /\ reused =>
                /\ mesh_cache[called_node][1].mesh_data_id = node_mesh[called_node][1].id
                /\ mesh_cache[called_node][1].vertex_count
                      = Len(node_mesh[called_node][1].data.vertices)
          /\ cacheStep = "getCachedMeshData" /\ ~reused =>
                /\ mesh_cache[called_node][1].face_adjacency = << >>
                /\ mesh_cache[called_node][1].vertex_adjacency = << >>
    /\ \A n \in CacheNodes :
          mesh_cache[n] # << >> =>
              mesh_cache[n][1].face_builds <= 1 /\ mesh_cache[n][1].vertex_builds <= 1


(***************************************************************************)
(* Region filters (_autoDetectOverhangs, the mode decision and the first   *)
(* tests of the region loop)                                               *)
(*                                                                         *)
(* The stages of the loop after the filters (bounds, extent, collision)    *)
(* are summed up in later_ok.  _updateProgress runs the event loop, so the *)
(* setting can change between the mode decision and the start of the loop. *)
(***************************************************************************)
\* counts <<positive, total>> summed over the faces of a region
ConvexCounts == { <<0, 0>>, <<1, 2>>, <<2, 2>>, <<2, 5>>, <<3, 5>> }

RegionStats ==
    [convex_pos_total : ConvexCounts, avg_lower_fraction : {30, 40, 50}, later_ok : BOOLEAN]

\* 0.35, or 0.45 for a floating mesh, in hundredths
region_lower_fraction_threshold(floating) == IF floating THEN 45 ELSE 35

\* convexity_threshold = 0.6 as a quotient
convexity_threshold == <<3, 5>>

\* convex_total > 0 and convex_score < convexity_threshold
ConvexScoreBelow(counts) ==
    /\ counts[2] > 0
    /\ counts[1] * convexity_threshold[2] < convexity_threshold[1] * counts[2]

\* what the loop does with one region
FilterOutcome(stats, convexity_filter, lower_fraction_filter, floating) ==
    IF lower_fraction_filter
       /\ stats.avg_lower_fraction > region_lower_fraction_threshold(floating)
    THEN "lower_fraction"
    ELSE IF convexity_filter /\ ConvexScoreBelow(stats.convex_pos_total)
    THEN "convexity"
    ELSE IF stats.later_ok THEN "created"
    ELSE "skipped_later"

FilterInit ==
    /\ detect_dangling_vertices \in BOOLEAN
    /\ floating_mesh \in BOOLEAN
    /\ vertex_regions_active = FALSE
    /\ apply_convexity_filter = FALSE
    /\ region_stats = << >>
    /\ filter_outcomes = << >>
    /\ filterStep = "start"
    /\ TopoIdle /\ ClassifyIdle /\ SatIdle /\ AutoIdle
    /\ PlaceIdle /\ DanglingIdle /\ WeldIdle /\ CacheIdle
    /\ EdgeIdle /\ ColumnIdle /\ SingleIdle /\ ToolIdle
    /\ EventIdle

\* the mode decision: with the setting on, the run goes on only with the
\* regions of the vertex detector; with it off, with the overhang regions
DetectRegions ==
    /\ filterStep = "start"
    /\ \E found \in SeqsUpTo(RegionStats, MaxFilterRegions) :
          IF detect_dangling_vertices
          THEN IF found # << >>
               THEN /\ vertex_regions_active' = TRUE
                    /\ region_stats' = found
                    /\ filterStep' = "regions"
               ELSE /\ UNCHANGED <<vertex_regions_active, region_stats>>
                    /\ filterStep' = "done"
          ELSE /\ vertex_regions_active' = FALSE
               /\ region_stats' = found
               /\ filterStep' = "regions"
    /\ UNCHANGED <<detect_dangling_vertices, floating_mesh, apply_convexity_filter,
                   filter_outcomes>>
    /\ FilterFrame

\* setDetectDanglingVertices, called from the event loop that _updateProgress runs
SetDetectDanglingVertices ==
    /\ filterStep = "regions"
    /\ detect_dangling_vertices' = ~detect_dangling_vertices
    /\ UNCHANGED <<floating_mesh, vertex_regions_active, apply_convexity_filter,
                   region_stats, filter_outcomes, filterStep>>
    /\ FilterFrame

\* apply_convexity_filter = not dangling_vertex_regions_active and self._detect_dangling_vertices
BeginRegionLoop ==
    /\ filterStep = "regions"
    /\ apply_convexity_filter' = (~vertex_regions_active /\ detect_dangling_vertices)
    /\ filterStep' = "loop"
    /\ UNCHANGED <<detect_dangling_vertices, floating_mesh, vertex_regions_active,
                   region_stats, filter_outcomes>>
    /\ FilterFrame

\* one pass of the region loop
FilterRegion ==
    /\ filterStep = "loop"
    /\ Len(filter_outcomes) < Len(region_stats)
    /\ filter_outcomes' =
           Append(filter_outcomes,
                  FilterOutcome(region_stats[Len(filter_outcomes) + 1], apply_convexity_filter,
                                ~vertex_regions_active, floating_mesh))
    /\ UNCHANGED <<detect_dangling_vertices, floating_mesh, vertex_regions_active,
                   apply_convexity_filter, region_stats, filterStep>>
    /\ FilterFrame

\* the loop is over
FinishRegionLoop ==
    /\ filterStep = "loop"
    /\ Len(filter_outcomes) = Len(region_stats)
    /\ filterStep' = "done"
    /\ UNCHANGED <<detect_dangling_vertices, floating_mesh, vertex_regions_active,
                   apply_convexity_filter, region_stats, filter_outcomes>>
    /\ FilterFrame

FilterNext ==
    \/ DetectRegions
    \/ SetDetectDanglingVertices
    \/ BeginRegionLoop
    \/ FilterRegion
    \/ FinishRegionLoop

SpecFilter == FilterInit /\ [][FilterNext]_vars

\* C17: no region whose convexity score is below 0.6 receives a placement.
C17_LowConvexityNeverPlaced ==
    \A r \in DOMAIN filter_outcomes :
        ConvexScoreBelow(region_stats[r].convex_pos_total) => filter_outcomes[r] # "created"


(***************************************************************************)
(* The obstruction under a point (_find_obstruction_height)                *)
(***************************************************************************)
\* faces under and around the points: a level shelf at 2 mm, a sloping face, a
\* face sunk 1 mm below the build plate, a level face at 4.8 mm, and a long
\* face that starts 1 mm beside x = 0
ObstructionFaces ==
    { << <<-30, 20, -30>>, <<30, 20, -30>>, <<0, 20, 40>> >>,
      << <<-30, 10, -30>>, <<30, 40, -30>>, <<0, 26, 40>> >>,
      << <<-30, -10, -30>>, <<30, -10, -30>>, <<0, -10, 40>> >>,
      << <<-30, 48, -30>>, <<30, 48, -30>>, <<0, 48, 40>> >>,
      << <<10, 30, -200>>, <<10, 30, 200>>, <<400, 30, 0>> >> }

\* the points (x, max_y, z) the height is asked for
ObstructionPoints == {0, 32} \X {3, 50, 300} \X {0, -28}

ObstructionInit ==
    /\ source_mesh \in SUBSET ObstructionFaces
    /\ tip_pos \in ObstructionPoints
    /\ column_radius = 0
    /\ obstruction_y = <<0, 1>>
    /\ column = NoColumn
    /\ placeStep = "input"
    /\ TopoIdle /\ ClassifyIdle /\ SatIdle /\ AutoIdle
    /\ DanglingIdle /\ WeldIdle /\ CacheIdle /\ FilterIdle
    /\ EdgeIdle /\ ColumnIdle /\ SingleIdle /\ ToolIdle
    /\ EventIdle

\* _find_obstruction_height(x, z, max_y, node)
FindObstructionHeight ==
    /\ placeStep = "input"
    /\ obstruction_y' = find_obstruction_height(tip_pos[1], tip_pos[3], tip_pos[2], source_mesh)
    /\ placeStep' = "find_obstruction_height"
    /\ UNCHANGED <<source_mesh, tip_pos, column_radius, column>>
    /\ PlaceFrame

ObstructionNext == FindObstructionHeight

SpecObstruction == ObstructionInit /\ [][ObstructionNext]_vars

\* twice the signed area of the triangle p, q, r seen from above
Area2(p, q, r) == (q[1] - p[1]) * (r[3] - p[3]) - (r[1] - p[1]) * (q[3] - p[3])

\* the weight of corner k of the face at the point (x, z), as a quotient
CornerWeight(face, k, x, z) ==
    LET p == <<x, 0, z>>
        q == face[(k % 3) + 1]
        r == face[((k + 1) % 3) + 1]
    IN  Quotient(Area2(p, q, r), Area2(face[1], face[2], face[3]))

\* the footprint of the face, widened by a tenth of each weight, contains (x, z)
FootprintContains(face, x, z) ==
    /\ Area2(face[1], face[2], face[3]) # 0
    /\ \A k \in 1 .. 3 : ~QLess(CornerWeight(face, k, x, z), <<-1, 10>>)

\* the height of the plane of the face at (x, z)
InterpolatedHeight(face, x, z) ==
    LET area == Area2(face[1], face[2], face[3])
        p == <<x, 0, z>>
    IN  Quotient(Area2(p, face[2], face[3]) * face[1][2]
                 + Area2(p, face[3], face[1]) * face[2][2]
                 + Area2(p, face[1], face[2]) * face[3][2], area)

\* (x, z) lies in the bounding box of the face widened by the tolerance
InWidenedBox(face, x, z) ==
    /\ \E k \in 1 .. 3 : face[k][1] - tolerance <= x
    /\ \E k \in 1 .. 3 : face[k][1] + tolerance >= x
    /\ \E k \in 1 .. 3 : face[k][3] - tolerance <= z
    /\ \E k \in 1 .. 3 : face[k][3] + tolerance >= z

\* the heights of the faces over (x, z) that lie below the ceiling less the margin
HeightsBelowCeiling ==
    {InterpolatedHeight(face, tip_pos[1], tip_pos[3]) :
        face \in {f \in source_mesh :
                     /\ FootprintContains(f, tip_pos[1], tip_pos[3])
                     /\ QLess(InterpolatedHeight(f, tip_pos[1], tip_pos[3]),
                              <<tip_pos[2] - obstruction_gap, 1>>)}}

\* of these, the heights above the build plate of faces in whose widened box the point lies
HeightsCounted ==
    {InterpolatedHeight(face, tip_pos[1], tip_pos[3]) :
        face \in {f \in source_mesh :
                     /\ InWidenedBox(f, tip_pos[1], tip_pos[3])
                     /\ FootprintContains(f, tip_pos[1], tip_pos[3])
                     /\ QLess(InterpolatedHeight(f, tip_pos[1], tip_pos[3]),
                              <<tip_pos[2] - obstruction_gap, 1>>)
                     /\ InterpolatedHeight(f, tip_pos[1], tip_pos[3])[1] > 0}}

IsGreatestOf(q, heights) == q \in heights /\ \A p \in heights : ~QLess(q, p)

\* C18 as stated: 0 when no face over the point lies below the ceiling less
\* the margin, otherwise the greatest height of such a face; and the result is
\* strictly below the ceiling less the margin.
C18_GreatestHeightBelowCeiling ==
    placeStep = "find_obstruction_height" =>
        /\ IF HeightsBelowCeiling = {} THEN obstruction_y = <<0, 1>>
           ELSE IsGreatestOf(obstruction_y, HeightsBelowCeiling)
        /\ QLess(obstruction_y, <<tip_pos[2] - obstruction_gap, 1>>)

\* C18 amended: only heights above 0 of faces in whose widened bounding box
\* the point lies count; the result is 0 when there is none and the greatest of
\* them otherwise, so it is 0 or strictly below the ceiling less the margin.
C18_GreatestCountedHeightOrZero ==
    placeStep = "find_obstruction_height" =>
        /\ IF HeightsCounted = {} THEN obstruction_y = <<0, 1>>
           ELSE IsGreatestOf(obstruction_y, HeightsCounted)
        /\ \/ obstruction_y = <<0, 1>>
           \/ QLess(obstruction_y, <<tip_pos[2] - obstruction_gap, 1>>)

\* the result is the height of a sloping face, above a lower face and under a
\* face that lies over the ceiling less the margin
C18_Witness ==
    /\ placeStep = "find_obstruction_height"
    /\ \E f \in source_mesh :
          /\ f[1][2] # f[2][2]
          /\ InterpolatedHeight(f, tip_pos[1], tip_pos[3]) = obstruction_y
    /\ \E q \in HeightsCounted : QLess(q, obstruction_y)
    /\ \E f \in source_mesh :
          /\ FootprintContains(f, tip_pos[1], tip_pos[3])
          /\ ~QLess(InterpolatedHeight(f, tip_pos[1], tip_pos[3]),
                    <<tip_pos[2] - obstruction_gap, 1>>)


(***************************************************************************)
(* Merging nearby edges (_merge_nearby_edges)                              *)
(***************************************************************************)
\* self._rail_min_length = 2.0 and self._merge_edge_distance = 1.0
rail_min_length == 4

merge_edge_distance == 2

\* numpy.linalg.norm(p - q)
Norm(p, q) == Abs(p - q)

\* `for j, (start2, end2) in enumerate(edges)' from edge j on; chain holds
\* chain_start, chain_end, used, changed and the edges taken into the chain
RECURSIVE ExtendChain(_, _, _, _)
ExtendChain(edge_list, merge_distance, j, chain) ==
    IF j > Len(edge_list) THEN chain
    ELSE IF j \in chain.used THEN ExtendChain(edge_list, merge_distance, j + 1, chain)
    ELSE LET start2 == edge_list[j][1]
             end2 == edge_list[j][2]
             dist_start_start == Norm(chain.chain_start, start2)
             dist_start_end == Norm(chain.chain_start, end2)
             dist_end_start == Norm(chain.chain_end, start2)
             dist_end_end == Norm(chain.chain_end, end2)
             min_dist == SetMin({dist_start_start, dist_start_end, dist_end_start, dist_end_end})
             taken == [chain EXCEPT !.used = @ \cup {j}, !.changed = TRUE,
                                    !.members = @ \cup {j}]
         IN  IF min_dist < merge_distance
             THEN ExtendChain(edge_list, merge_distance, j + 1,
                      IF dist_end_start < merge_distance THEN [taken EXCEPT !.chain_end = end2]
                      ELSE IF dist_end_end < merge_distance
                      THEN [taken EXCEPT !.chain_end = start2]
                      ELSE IF dist_start_start < merge_distance
                      THEN [taken EXCEPT !.chain_start = end2]
                      ELSE [taken EXCEPT !.chain_start = start2])
             ELSE ExtendChain(edge_list, merge_distance, j + 1, chain)

\* `while changed'
RECURSIVE ChainLoop(_, _, _)
ChainLoop(edge_list, merge_distance, chain) ==
    LET after == ExtendChain(edge_list, merge_distance, 1, [chain EXCEPT !.changed = FALSE])
    IN  IF after.changed THEN ChainLoop(edge_list, merge_distance, after) ELSE after

\* `for i, (start1, end1) in enumerate(edges)' from edge i on
RECURSIVE ChainsFrom(_, _, _, _, _)
ChainsFrom(edge_list, merge_distance, i, used, chains) ==
    IF i > Len(edge_list) THEN chains
    ELSE IF i \in used THEN ChainsFrom(edge_list, merge_distance, i + 1, used, chains)
    ELSE LET chain == ChainLoop(edge_list, merge_distance,
                                [chain_start |-> edge_list[i][1], chain_end |-> edge_list[i][2],
                                 used |-> used \cup {i}, changed |-> TRUE, members |-> {i}])
             edge_length == Norm(chain.chain_end, chain.chain_start)
         IN  ChainsFrom(edge_list, merge_distance, i + 1, chain.used,
                        IF edge_length >= rail_min_length
                        THEN Append(chains, [chain_start |-> chain.chain_start,
                                             chain_end |-> chain.chain_end,
                                             members |-> chain.members])
                        ELSE chains)

\* _merge_nearby_edges(edges, merge_distance): a list of at most one edge is
\* returned as it is
merge_nearby_edges(edge_list, merge_distance) ==
    IF Len(edge_list) <= 1
    THEN [i \in DOMAIN edge_list |->
             [chain_start |-> edge_list[i][1], chain_end |-> edge_list[i][2], members |-> {i}]]
    ELSE ChainsFrom(edge_list, merge_distance, 1, {}, << >>)

\* the edges between two distinct points at 0 .. MaxEdgeCoord
EdgeCatalog == {e \in (0 .. MaxEdgeCoord) \X (0 .. MaxEdgeCoord) : e[1] # e[2]}

EdgeInit ==
    /\ boundary_edges \in SeqsUpTo(EdgeCatalog, MaxEdges)
    /\ merged_edges = << >>
    /\ edgeStep = "input"
    /\ TopoIdle /\ ClassifyIdle /\ SatIdle /\ AutoIdle
    /\ PlaceIdle /\ DanglingIdle /\ WeldIdle /\ CacheIdle
    /\ FilterIdle /\ ColumnIdle /\ SingleIdle /\ ToolIdle
    /\ EventIdle

\* merged_edges = self._merge_nearby_edges(boundary_edges, self._merge_edge_distance)
MergeNearbyEdges ==
    /\ edgeStep = "input"
    /\ merged_edges' = merge_nearby_edges(boundary_edges, merge_edge_distance)
    /\ edgeStep' = "merge_nearby_edges"
    /\ UNCHANGED boundary_edges
    /\ EdgeFrame

EdgeNext == MergeNearbyEdges

SpecEdge == EdgeInit /\ [][EdgeNext]_vars

\* the least distance between an endpoint of edge i and an endpoint of edge j
EndpointGap(i, j) ==
    SetMin({Norm(boundary_edges[i][a], boundary_edges[j][b]) : a \in 1 .. 2, b \in 1 .. 2})

\* C19: every returned chain is at least rail_min_length long; no edge is in
\* two returned chains; and when the endpoints of any two edges are farther
\* apart than the merge distance every returned chain is a single edge.
C19_ChainsAtLeastMinLength ==
    edgeStep = "merge_nearby_edges" =>
        /\ \A k \in DOMAIN merged_edges :
              Norm(merged_edges[k].chain_end, merged_edges[k].chain_start) >= rail_min_length
        /\ \A k, l \in DOMAIN merged_edges :
              k # l => merged_edges[k].members \cap merged_edges[l].members = {}
        /\ (\A i, j \in DOMAIN boundary_edges : i # j => EndpointGap(i, j) > merge_edge_distance)
              => \A k \in DOMAIN merged_edges : Cardinality(merged_edges[k].members) = 1


(***************************************************************************)
(* The mesh of a tip column (_create_tip_column_mesh_v2)                   *)
(***************************************************************************)
\* a variant that does not wrap around the ring
NextSideNoWrap(i, sides) == i + 1

\* next_i = (i + 1) % sides
NextSide(i, sides) == (i + 1) % sides

\* verts: bottom centre, top centre, bottom ring, top ring
ColumnVertices(tip_y, base_y, sides) ==
    << [ring |-> "centre", i |-> 0, y |-> base_y], [ring |-> "centre", i |-> 0, y |-> tip_y] >>
    \o [k \in 1 .. sides |-> [ring |-> "base", i |-> k - 1, y |-> base_y]]
    \o [k \in 1 .. sides |-> [ring |-> "top", i |-> k - 1, y |-> tip_y]]

\* indices: the bottom cap, the top cap and two faces per side
ColumnIndices(sides) ==
    LET bottom_center_idx == 0
        top_center_idx == 1
        bottom_start_idx == 2
        top_start_idx == bottom_start_idx + sides
        b1(i) == bottom_start_idx + i
        b2(i) == bottom_start_idx + NextSide(i, sides)
        t1(i) == top_start_idx + i
        t2(i) == top_start_idx + NextSide(i, sides)
    IN  [k \in 1 .. sides |-> <<bottom_center_idx, b2(k - 1), b1(k - 1)>>]
        \o [k \in 1 .. sides |-> <<top_center_idx, t1(k - 1), t2(k - 1)>>]
        \o [k \in 1 .. 2 * sides |->
               IF k % 2 = 1 THEN <<b1((k - 1) \div 2), t1((k - 1) \div 2), b2((k - 1) \div 2)>>
               ELSE <<b2((k - 1) \div 2), t1((k - 1) \div 2), t2((k - 1) \div 2)>>]

\* the mesh; an empty MeshBuilder when the tip is at or below the base
tip_column_mesh_v2(tip_y, base_y, sides) ==
    IF tip_y <= base_y THEN [vertices |-> << >>, indices |-> << >>]
    ELSE [vertices |-> ColumnVertices(tip_y, base_y, sides), indices |-> ColumnIndices(sides)]

ColumnInit ==
    /\ column_sides \in 1 .. MaxSides
    /\ column_tip_y \in 0 .. MaxColumnY
    /\ column_base_y \in 0 .. MaxColumnY
    /\ column_mesh = [vertices |-> << >>, indices |-> << >>]
    /\ columnStep = "input"
    /\ TopoIdle /\ ClassifyIdle /\ SatIdle /\ AutoIdle
    /\ PlaceIdle /\ DanglingIdle /\ WeldIdle /\ CacheIdle
    /\ FilterIdle /\ EdgeIdle /\ SingleIdle /\ ToolIdle
    /\ EventIdle

\* _create_tip_column_mesh_v2(tip_position, base_y, column_radius, taper, sides)
CreateTipColumnMeshV2 ==
    /\ columnStep = "input"
    /\ column_mesh' = tip_column_mesh_v2(column_tip_y, column_base_y, column_sides)
    /\ columnStep' = "create_tip_column_mesh_v2"
    /\ UNCHANGED <<column_sides, column_tip_y, column_base_y>>
    /\ ColumnFrame

ColumnNext == CreateTipColumnMeshV2

SpecColumn == ColumnInit /\ [][ColumnNext]_vars

\* how many corners pairs of the faces run along the undirected edge
EdgeUses(mesh_indices, edge) ==
    Cardinality({<<f, k>> \in (DOMAIN mesh_indices) \X (0 .. 2) :
                    FaceEdge(mesh_indices[f], k) = edge})

\* C20: with at least three sides and the tip above the base the mesh has
\* 2 + 2n vertices and 4n triangles, every index is a vertex and every
\* undirected edge of a triangle is used by exactly two triangles; with the tip
\* at or below the base the mesh is empty.
C20_ColumnMeshClosed ==
    columnStep = "create_tip_column_mesh_v2" =>
        /\ column_tip_y > column_base_y /\ column_sides >= 3 =>
              /\ Len(column_mesh.vertices) = 2 + 2 * column_sides
              /\ Len(column_mesh.indices) = 4 * column_sides
              /\ \A f \in DOMAIN column_mesh.indices : \A k \in 1 .. 3 :
                    column_mesh.indices[f][k] \in 0 .. (Len(column_mesh.vertices) - 1)
              /\ \A f \in DOMAIN column_mesh.indices :
                    Cardinality(Range(column_mesh.indices[f])) = 3
              /\ \A f \in DOMAIN column_mesh.indices : \A k \in 0 .. 2 :
                    EdgeUses(column_mesh.indices, FaceEdge(column_mesh.indices[f], k)) = 2
        /\ column_tip_y <= column_base_y =>
              column_mesh.vertices = << >> /\ column_mesh.indices = << >>

\* a column of eight sides from a base above the build plate up to its tip
C20_Witness ==
    /\ columnStep = "create_tip_column_mesh_v2"
    /\ column_sides = 8
    /\ column_base_y > 0
    /\ Len(column_mesh.indices) = 32

(***************************************************************************)
(* The shrink loop of the vertical-extent solver, one pass at a time       *)
(* (_autoDetectOverhangs, lines 2935-3036).  current.span holds the loop's *)
(* locals between two passes: exit is "running" while the loop goes on.    *)
(***************************************************************************)
\* the locals before the first pass (lines 2935-2937)
LoopStart(inp) ==
    [exit |-> "running", top_y |-> 0, bottom_y |-> 0,
     padded_size_x |-> PaddedSize(inp.region_size_world_x),
     padded_size_z |-> PaddedSize(inp.region_size_world_z),
     shrink_attempts |-> 0]

\* one pass of `while shrink_attempts < 10' (lines 2947-3022)
ShrinkPass(inp, span) ==
    LET e == EvaluateSpan(inp, span.padded_size_x, span.padded_size_z)
        new_size_x == ShrinkSize(inp.region_size_world_x, span.padded_size_x)
        new_size_z == ShrinkSize(inp.region_size_world_z, span.padded_size_z)
    IN  IF SpanValid(inp, e)
        THEN [span EXCEPT !.exit = "settled", !.top_y = e.top_y, !.bottom_y = e.bottom_y]
        ELSE IF new_size_x = span.padded_size_x /\ new_size_z = span.padded_size_z
        THEN [span EXCEPT !.exit = "size_floor", !.top_y = ClampedTop(e),
                          !.bottom_y = e.bottom_y]
        ELSE [exit |-> IF span.shrink_attempts + 1 < max_shrink_attempts
                       THEN "running" ELSE "attempts_exhausted",
              top_y |-> e.top_y, bottom_y |-> e.bottom_y,
              padded_size_x |-> new_size_x, padded_size_z |-> new_size_z,
              shrink_attempts |-> span.shrink_attempts + 1]

\* one dangling region that passed the filters enters the solver
ShrinkInit ==
    /\ total_regions = 1
    /\ target_region_id = -1
    /\ dangling_vertex_regions_active = TRUE
    /\ region_id = 0
    /\ \E inp \in RegionInputs :
          /\ inp.passes_filters
          /\ current = [input |-> inp, span |-> LoopStart(inp)]
    /\ outcomes = << >>
    /\ blockers = {}
    /\ created_count = 0
    /\ autoStep = "loop"
    /\ TopoIdle /\ ClassifyIdle /\ SatIdle /\ PlaceIdle
    /\ DanglingIdle /\ WeldIdle /\ CacheIdle /\ FilterIdle
    /\ EdgeIdle /\ ColumnIdle /\ SingleIdle /\ ToolIdle
    /\ EventIdle

\* the body of the while loop runs once
ShrinkAttempt ==
    /\ autoStep = "loop"
    /\ region_id < total_regions
    /\ current.span.exit = "running"
    /\ current' = [current EXCEPT !.span = ShrinkPass(current.input, current.span)]
    /\ UNCHANGED <<total_regions, target_region_id, dangling_vertex_regions_active,
                   region_id, outcomes, blockers, created_count, autoStep>>
    /\ AutoFrame

\* the loop has ended: the tests after it and the collision check (lines 3038-3105)
AfterShrinkLoop ==
    /\ autoStep = "loop"
    /\ region_id < total_regions
    /\ current.span.exit # "running"
    /\ LET outcome == RegionOutcome(region_id, target_region_id,
                                    dangling_vertex_regions_active,
                                    current.input, current.span)
       IN  /\ outcomes' = Append(outcomes, outcome)
           /\ blockers' = IF outcome = "created" THEN blockers \cup {region_id}
                          ELSE blockers
           /\ created_count' = IF outcome = "created" THEN created_count + 1
                               ELSE created_count
           /\ region_id' = AfterRegion(region_id, outcome, total_regions)
    /\ UNCHANGED <<total_regions, target_region_id, dangling_vertex_regions_active,
                   current, autoStep>>
    /\ AutoFrame

ShrinkNext ==
    \/ ShrinkAttempt
    \/ AfterShrinkLoop
    \/ FinishAutoDetect

SpecShrink == ShrinkInit /\ [][ShrinkNext]_vars /\ WF_vars(ShrinkNext)

\* the footprint is at least the region's own size, and at most 10 shrinks ran
ShrinkBounded ==
    /\ current.span.shrink_attempts <= max_shrink_attempts
    /\ current.span.padded_size_x >= current.input.region_size_world_x
    /\ current.span.padded_size_z >= current.input.region_size_world_z
    /\ current.span.exit = "running" => current.span.shrink_attempts < max_shrink_attempts
    /\ current.span.exit = "attempts_exhausted" =>
           current.span.shrink_attempts = max_shrink_attempts
    /\ current.span.exit # "running" => current.span = SolveVerticalExtent(current.input)

\* what one pass of the loop does to the footprint
ShrinkPassProgress ==
    LET inp == current.input
        s == current.span
        t == current'.span
    IN  (s.exit = "running" /\ t # s) =>
            \/ /\ t.exit = "settled"
               /\ t.padded_size_x = s.padded_size_x /\ t.padded_size_z = s.padded_size_z
               /\ t.shrink_attempts = s.shrink_attempts
            \/ /\ t.exit = "size_floor"
               /\ s.padded_size_x = inp.region_size_world_x
               /\ s.padded_size_z = inp.region_size_world_z
               /\ t.padded_size_x = s.padded_size_x /\ t.padded_size_z = s.padded_size_z
               /\ t.shrink_attempts = s.shrink_attempts
            \/ /\ t.exit \in {"running", "attempts_exhausted"}
               /\ t.shrink_attempts = s.shrink_attempts + 1
               /\ t.padded_size_x <= s.padded_size_x /\ t.padded_size_z <= s.padded_size_z
               /\ t.padded_size_x < s.padded_size_x \/ t.padded_size_z < s.padded_size_z

\* C21: the shrink loop ends on every input after at most 10 shrink attempts:
\* each pass either settles on a valid span, or strictly reduces the footprint in
\* at least one horizontal dimension (never enlarging the other), or exits because
\* the footprint has reached the region's own size in both dimensions; the
\* footprint is never smaller than the region's own horizontal size.
C21_ShrinkLoopTerminates ==
    /\ []ShrinkBounded
    /\ [][ShrinkPassProgress]_vars
    /\ <>(current.span.exit # "running")

\* ten shrinks ran without a valid span: the footprint reached the region's depth
\* after some of them and was still wider than the region at the end
C21_Witness ==
    /\ current.span.exit = "attempts_exhausted"
    /\ current.span.shrink_attempts = max_shrink_attempts
    /\ current.span.padded_size_z = current.input.region_size_world_z
    /\ current.span.padded_size_x > current.input.region_size_world_x

(***************************************************************************)
(* Support settings of the tool and the modifier volume that carries them  *)
(* (line widths in 0.01 mm)                                                *)
(***************************************************************************)
\* SUPPORT_MODE_SETTINGS without the descriptions: "wing" has no setting
SUPPORT_MODE_SETTINGS ==
    [structural |->
        [support_pattern |-> "grid", support_infill_rate |-> 15,
         support_line_width |-> 40, support_wall_count |-> 1,
         support_interface_enable |-> TRUE, support_roof_enable |-> TRUE,
         support_bottom_enable |-> TRUE],
     stability |->
        [support_pattern |-> "lines", support_infill_rate |-> 5,
         support_line_width |-> 30, support_wall_count |-> 1,
         support_interface_enable |-> FALSE, support_roof_enable |-> FALSE,
         support_bottom_enable |-> FALSE],
     custom |->
        [support_pattern |-> "lines", support_infill_rate |-> 10,
         support_line_width |-> 40, support_wall_count |-> 0,
         support_interface_enable |-> FALSE, support_roof_enable |-> FALSE,
         support_bottom_enable |-> FALSE],
     wing |-> << >>]

\* the support mode and the seven support settings after __init__
InitialSupport ==
    [support_mode |-> "structural",
     settings |-> [support_pattern |-> "grid", support_infill_rate |-> 15,
                   support_line_width |-> 40, support_wall_count |-> 1,
                   support_interface_enable |-> TRUE, support_roof_enable |-> TRUE,
                   support_bottom_enable |-> TRUE]]

\* mode_names.get(self._support_mode, "Modifier Volume")
VolumeName(mode) ==
    CASE mode = "structural" -> "Structural Support Volume"
      [] mode = "stability" -> "Stability Support Volume"
      [] mode = "custom" -> "Custom Support Volume"
      [] OTHER -> "Modifier Volume"

\* the node _createModifierVolumeWithSize adds to the scene: a cube of the given
\* size at the given position, a cutting mesh under `parent' whose setting stack
\* carries the tool's seven support settings
createModifierVolumeWithSize(parent, position, size, support) ==
    [name |-> VolumeName(support.support_mode),
     parent |-> parent,
     position |-> position,
     size |-> size,
     mesh_type |-> "cutting_mesh",
     settings |-> support.settings]

(***************************************************************************)
(* Single-region mode                                                      *)
(***************************************************************************)
\* max_depth=20 of the search for a nearby overhang face
nearby_max_depth == 20

\* angle_margin=10.0
angle_margin == 10

\* if len(region_faces) < 10
single_region_min_faces == 10

\* padding_factor = 1.4, in tenths
single_padding_tenths == 14

\* _isFaceOverhang and _isFaceNearOverhang: angle > deg2rad(90 + threshold_angle)
FaceAngleExceeds(face_angles, face_id, threshold) ==
    face_angles[face_id] > 90 + threshold

\* a variant that also searches the neighbours of a face at the depth limit
WithinDepthInclusive(depth, max_depth) == depth <= max_depth

\* if depth < max_depth
WithinDepth(depth, max_depth) == depth < max_depth

\* "for neighbor in adjacency[current_face]: if neighbor not in visited: ..."
RECURSIVE EnqueueAtDepth(_, _, _, _)
EnqueueAtDepth(nbs, k, depth, st) ==
    IF k > Len(nbs) THEN st
    ELSE EnqueueAtDepth(nbs, k + 1, depth,
            IF nbs[k] \in st.visited THEN st
            ELSE [queue |-> Append(st.queue, <<nbs[k], depth>>),
                  visited |-> st.visited \cup {nbs[k]}])

\* the while-queue loop of _findNearbyOverhang: << >> for None
RECURSIVE NearbyLoop(_, _, _, _, _)
NearbyLoop(face_angles, adj, threshold, max_depth, st) ==
    IF st.queue = << >> THEN << >>
    ELSE LET current_face == Head(st.queue)[1]
             depth == Head(st.queue)[2]
             popped == [st EXCEPT !.queue = Tail(@)]
         IN  IF FaceAngleExceeds(face_angles, current_face, threshold)
             THEN <<current_face>>
             ELSE NearbyLoop(face_angles, adj, threshold, max_depth,
                     IF WithinDepth(depth, max_depth) /\ current_face \in DOMAIN adj
                     THEN EnqueueAtDepth(adj[current_face], 1, depth + 1, popped)
                     ELSE popped)

findNearbyOverhang(start_face, face_angles, adj, threshold, max_depth) ==
    NearbyLoop(face_angles, adj, threshold, max_depth,
               [queue |-> << <<start_face, 0>> >>, visited |-> {start_face}])

\* _findConnectedOverhangRegionExpanded: the loop of _findConnectedOverhangRegion
\* with _isFaceNearOverhang at threshold_angle - angle_margin
findConnectedOverhangRegionExpanded(start_face, face_angles, adj, threshold, margin) ==
    LET expanded_threshold == threshold - margin
        near == {f \in DOMAIN face_angles :
                    FaceAngleExceeds(face_angles, f, expanded_threshold)}
    IN  BfsOverhang(adj, near,
                    [queue |-> <<start_face>>, visited |-> {start_face},
                     region |-> << >>]).region

\* the axis-aligned bounds of the vertices of a region's faces
calculateRegionBounds(vertices, ind, faces) ==
    LET used == {ind[faces[k]][i] : k \in DOMAIN faces, i \in 1 .. 3}
    IN  [min_bounds |-> [a \in 1 .. 3 |-> SetMin({vertices[v][a] : v \in used})],
         max_bounds |-> [a \in 1 .. 3 |-> SetMax({vertices[v][a] : v \in used})]]

\* max(1.0, float(region_size * padding_factor))
SinglePaddedSize(region_size) == Max2(100, (region_size * single_padding_tenths) \div 10)

\* the size and the position of the blocker of a region (lines 1918-1937, with
\* the identity as world transformation)
RegionBlocker(vertices, ind, faces) ==
    LET b == calculateRegionBounds(vertices, ind, faces)
        padded == [a \in 1 .. 3 |-> SinglePaddedSize(b.max_bounds[a] - b.min_bounds[a])]
    IN  [size |-> padded,
         position |-> <<(b.min_bounds[1] + b.max_bounds[1]) \div 2,
                        b.max_bounds[2] - (padded[2] \div 2),
                        (b.min_bounds[3] + b.max_bounds[3]) \div 2>>]

\* what _buildAdjacencyGraph returns for the indices of a strip of n faces: a face
\* is linked to the face before it and to the face after it, in that order
StripAdjacency(n) ==
    [f \in {g \in 0 .. (n - 1) : n > 1} |->
        IF f = 0 THEN <<1>> ELSE IF f = n - 1 THEN <<n - 2>> ELSE <<f - 1, f + 1>>]

\* a strip of n faces: face f has the vertices f, f + 1, f + 2, so that it shares
\* an edge with the faces f - 1 and f + 1 only; the vertices zigzag along x
StripMesh(face_angles) ==
    LET n == Len(face_angles)
    IN  [indices |-> [f \in 0 .. (n - 1) |-> <<f, f + 1, f + 2>>],
         vertices |-> [v \in 0 .. (n + 1) |->
                          <<50 * v, IF v % 2 = 0 THEN 0 ELSE 30, 0>>],
         angles |-> [f \in 0 .. (n - 1) |-> face_angles[f + 1]],
         face_adjacency |-> StripAdjacency(n)]

Repeat(x, n) == [i \in 1 .. n |-> x]

\* lead faces that face sideways, then faces near the threshold (130 degrees from
\* up), faces that face down, faces near the threshold again, and a last face
\* that faces up
StripAngles(lead, near_before, strict, near_after) ==
    Repeat(90, lead) \o Repeat(130, near_before) \o Repeat(180, strict)
        \o Repeat(130, near_after) \o <<0>>

SingleInit ==
    /\ \E lead \in 0 .. MaxLead, near_before \in 0 .. 1,
          strict \in 0 .. MaxStrict, near_after \in 0 .. 1 :
          click_mesh = StripMesh(StripAngles(lead, near_before, strict, near_after))
    /\ closest_face_id \in {0, Cardinality(DOMAIN click_mesh.indices) - 1}
    /\ click_threshold \in {30, 45}
    /\ start_face_id = << >>
    /\ single_region_faces = << >>
    /\ scene_volumes = << >>
    /\ singleStep = "click"
    /\ TopoIdle /\ ClassifyIdle /\ SatIdle /\ AutoIdle
    /\ PlaceIdle /\ DanglingIdle /\ WeldIdle /\ CacheIdle
    /\ FilterIdle /\ EdgeIdle /\ ColumnIdle /\ ToolIdle
    /\ EventIdle

\* _detectSingleRegion(node, picked_position) on a node with mesh data
DetectSingleRegion ==
    /\ singleStep = "click"
    /\ LET adj == click_mesh.face_adjacency
           start == IF FaceAngleExceeds(click_mesh.angles, closest_face_id, click_threshold)
                    THEN <<closest_face_id>>
                    ELSE findNearbyOverhang(closest_face_id, click_mesh.angles, adj,
                                            click_threshold, nearby_max_depth)
           faces == IF start = << >> THEN << >>
                    ELSE findConnectedOverhangRegionExpanded(
                             start[1], click_mesh.angles, adj, click_threshold, angle_margin)
       IN  /\ start_face_id' = start
           /\ single_region_faces' = faces
           /\ IF start = << >>
              THEN /\ singleStep' = "no_overhang"
                   /\ UNCHANGED scene_volumes
              ELSE IF Len(faces) < single_region_min_faces
              THEN /\ singleStep' = "too_small"
                   /\ UNCHANGED scene_volumes
              ELSE LET blocker == RegionBlocker(click_mesh.vertices, click_mesh.indices, faces)
                   IN  /\ scene_volumes' =
                              Append(scene_volumes,
                                     createModifierVolumeWithSize(
                                         "node", blocker.position, blocker.size,
                                         InitialSupport))
                       /\ singleStep' = "created"
    /\ UNCHANGED <<click_mesh, closest_face_id, click_threshold>>
    /\ SingleFrame

SingleNext ==
    \/ DetectSingleRegion

SpecSingle == SingleInit /\ [][SingleNext]_vars

\* the faces of the clicked mesh that pass the strict test, and those that pass
\* the test relaxed by the margin
StrictFaces ==
    {f \in DOMAIN click_mesh.angles : click_mesh.angles[f] > 90 + click_threshold}

RelaxedFaces ==
    {f \in DOMAIN click_mesh.angles :
        click_mesh.angles[f] > 90 + click_threshold - angle_margin}

ClickNeighbours(f) ==
    IF f \in DOMAIN click_mesh.face_adjacency
    THEN {click_mesh.face_adjacency[f][k] : k \in DOMAIN click_mesh.face_adjacency[f]}
    ELSE {}

\* the faces at most k adjacency steps away from the faces of S
RECURSIVE WithinSteps(_, _)
WithinSteps(S, k) ==
    IF k = 0 THEN S
    ELSE WithinSteps(S \cup UNION {ClickNeighbours(f) : f \in S}, k - 1)

\* the faces joined to S by a chain of adjacent faces that all lie in `allowed'
RECURSIVE ConnectedWithin(_, _)
ConnectedWithin(S, allowed) ==
    LET more == S \cup (allowed \cap UNION {ClickNeighbours(f) : f \in S})
    IN  IF more = S THEN S ELSE ConnectedWithin(more, allowed)

\* the extent along axis a of the vertices of the grown region
RegionExtent(a) ==
    LET used == {click_mesh.indices[single_region_faces[k]][i] :
                    k \in DOMAIN single_region_faces, i \in 1 .. 3}
    IN  [lo |-> SetMin({click_mesh.vertices[v][a] : v \in used}),
         hi |-> SetMax({click_mesh.vertices[v][a] : v \in used})]

\* C22: in single-region mode a click creates exactly one blocker when an overhang
\* face lies at the clicked face or within 20 adjacency steps of it and the region
\* connected to the face found, grown over the faces that pass the test relaxed by
\* 10 degrees, has at least 10 faces; the blocker is a cutting mesh under the
\* clicked node whose size is the region's extent times 1.4 (at least 1 mm) on
\* each axis, centred on the region in x and z with its top at the region's
\* highest point.  Without an overhang face within reach, or with a region of
\* fewer than 10 faces, nothing is created.
C22_SingleRegionBlocker ==
    singleStep # "click" =>
        LET found == WithinSteps({closest_face_id}, nearby_max_depth) \cap StrictFaces # {}
            grown == {single_region_faces[k] : k \in DOMAIN single_region_faces}
        IN  /\ found <=> start_face_id # << >>
            /\ found =>
                  /\ start_face_id[1] \in StrictFaces
                  /\ \E d \in 0 .. nearby_max_depth :
                        /\ start_face_id[1] \in WithinSteps({closest_face_id}, d)
                        /\ d > 0 => WithinSteps({closest_face_id}, d - 1)
                                        \cap StrictFaces = {}
                  /\ grown = ConnectedWithin({start_face_id[1]}, RelaxedFaces)
                  /\ Cardinality(grown) = Len(single_region_faces)
            /\ ~found => single_region_faces = << >>
            /\ Len(scene_volumes) =
                  IF found /\ Len(single_region_faces) >= single_region_min_faces
                  THEN 1 ELSE 0
            /\ \A k \in DOMAIN scene_volumes :
                  LET volume == scene_volumes[k]
                  IN  /\ volume.mesh_type = "cutting_mesh"
                      /\ volume.parent = "node"
                      /\ \A a \in 1 .. 3 :
                            volume.size[a] =
                                Max2(100, (14 * (RegionExtent(a).hi - RegionExtent(a).lo))
                                              \div 10)
                      /\ 2 * volume.position[1] = RegionExtent(1).lo + RegionExtent(1).hi
                      /\ 2 * volume.position[2] + volume.size[2] = 2 * RegionExtent(2).hi
                      /\ 2 * volume.position[3] = RegionExtent(3).lo + RegionExtent(3).hi

\* the clicked face faces sideways and the nearest overhang face is exactly 20
\* steps away; the region grown from it takes in faces that pass only the relaxed
\* test, has at least 10 faces and received its blocker
C22_Witness ==
    /\ singleStep = "created"
    /\ Len(scene_volumes) = 1
    /\ closest_face_id \notin StrictFaces
    /\ start_face_id # << >>
    /\ start_face_id[1] \notin WithinSteps({closest_face_id}, nearby_max_depth - 1)
    /\ \E k \in DOMAIN single_region_faces : single_region_faces[k] \notin StrictFaces
    /\ Len(single_region_faces) >= single_region_min_faces

(***************************************************************************)
(* Support modes, support settings and the cached detection results        *)
(* (coordinates and sizes in 0.1 mm)                                       *)
(***************************************************************************)
\* the keys of SUPPORT_MODE_SETTINGS and a name that is not one of them
ModeNames == {"structural", "stability", "custom", "wing"}

ModeNamesTried == ModeNames \cup {"tree"}

\* the nodes of the scene: `empty' has no mesh data
SceneNodes == {"bracket", "hook", "plate", "empty"}

NodeHasMeshData(node) == node # "empty"

OverhangThresholds == {45, 60}

\* what the region finding of detectOverhangsOnSelection stores for a node at a
\* threshold: the regions sorted by min_y, the lowest one classified as a tip
NodeRegions(node, threshold) ==
    LET tip == [type |-> "tip", face_ids |-> <<0, 1>>,
                min_coords |-> <<0, 10, 0>>, max_coords |-> <<20, 30, 40>>]
        rim == [type |-> "boundary", face_ids |-> <<4>>,
                min_coords |-> <<40, 50, 0>>, max_coords |-> <<100, 50, 20>>]
        barb == [type |-> "tip", face_ids |-> <<2, 3, 5>>,
                 min_coords |-> <<0, 20, 0>>, max_coords |-> <<10, 40, 10>>]
    IN  CASE node = "bracket" /\ threshold = 45 -> <<tip, rim>>
          [] node = "bracket" /\ threshold = 60 -> <<tip>>
          [] node = "hook" /\ threshold = 45 -> <<barb>>
          [] OTHER -> << >>

\* setSupportMode(mode) on the mode and settings s: SUPPORT_MODE_SETTINGS["wing"]
\* has no "support_pattern", so the first lookup raises KeyError after the mode
\* has been assigned
setSupportMode(s, mode) ==
    IF mode # s.support_mode /\ mode \in ModeNames
    THEN IF "support_pattern" \in DOMAIN SUPPORT_MODE_SETTINGS[mode]
         THEN [support_mode |-> mode, settings |-> SUPPORT_MODE_SETTINGS[mode],
               raised |-> "", emitted |-> TRUE]
         ELSE [support_mode |-> mode, settings |-> s.settings,
               raised |-> "KeyError", emitted |-> FALSE]
    ELSE [support_mode |-> s.support_mode, settings |-> s.settings,
          raised |-> "", emitted |-> FALSE]

\* max(size + padding, 3.0) with padding = 2.0
PaddedCube(size) == Max2(size + 20, 30)

\* one pass of the loop of createSupportForOverhangs (lines 4214-4245): the mode is
\* assigned before setSupportMode is called with it
SupportForRegion(s, rgn, parent, from, threshold) ==
    LET mode == IF rgn.type = "tip" THEN "structural" ELSE "stability"
        applied == setSupportMode([support_mode |-> mode, settings |-> s.settings], mode)
        extent == [a \in 1 .. 3 |-> rgn.max_coords[a] - rgn.min_coords[a]]
        cube == <<PaddedCube(extent[1]), PaddedCube(extent[3]), PaddedCube(extent[2])>>
        position == [a \in 1 .. 3 |-> (rgn.min_coords[a] + rgn.max_coords[a]) \div 2]
        volume == createModifierVolumeWithSize(parent, position, cube, applied)
    IN  [support_mode |-> applied.support_mode,
         settings |-> applied.settings,
         cube_size |-> cube,
         supports |-> Append(s.supports,
                             [kind |-> "volume", region_type |-> rgn.type,
                              volume |-> volume, made_from |-> from,
                              threshold_then |-> threshold])]

RECURSIVE SupportLoop(_, _, _, _, _, _)
SupportLoop(s, rgns, i, parent, from, threshold) ==
    IF i > Len(rgns) THEN s
    ELSE SupportLoop(SupportForRegion(s, rgns[i], parent, from, threshold),
                     rgns, i + 1, parent, from, threshold)

\* a support mesh node added by _create_support_mesh_node
SupportMeshNode(kind, rgn, parent, from, threshold) ==
    [kind |-> kind, region_type |-> rgn.type,
     volume |-> [parent |-> parent, mesh_type |-> "support_mesh"],
     made_from |-> from, threshold_then |-> threshold]

\* the loop of createCustomSupportMesh and createCustomSupportMeshV2: a column for
\* a tip region, a rail along the boundary of a boundary region
RECURSIVE CustomLoop(_, _, _, _, _, _, _)
CustomLoop(supports, rgns, i, support_type, parent, from, threshold) ==
    IF i > Len(rgns) THEN supports
    ELSE LET rgn == rgns[i]
             made == IF rgn.type = "tip" /\ support_type \in {"auto", "tip_column"}
                     THEN <<SupportMeshNode("column", rgn, parent, from, threshold)>>
                     ELSE IF rgn.type = "boundary" /\ support_type \in {"auto", "edge_rail"}
                     THEN <<SupportMeshNode("rail", rgn, parent, from, threshold)>>
                     ELSE << >>
         IN  CustomLoop(supports \o made, rgns, i + 1, support_type, parent, from, threshold)

\* what a call that neither raised nor emitted leaves in last_call
Call(name, raised, emitted) == [op |-> name, raised |-> raised, emitted |-> emitted]

supportVars == <<support_mode, support_settings, cube_size>>

detectionVars == <<overhang_threshold, detected_overhangs, overhang_angles, results_from>>

\* the tool after __init__
ToolConstructed ==
    /\ support_mode = InitialSupport.support_mode
    /\ support_settings = InitialSupport.settings
    /\ cube_size = <<30, 30, 30>>
    /\ last_call = Call("__init__", "", FALSE)
    /\ overhang_threshold = 45
    /\ tool_supports = << >>
    /\ tool_calls = 0

\* a node is selected and detection has run on it at the default threshold
SupportInit ==
    /\ ToolConstructed
    /\ \E node \in {"bracket", "hook", "plate"} :
          /\ selected_node = <<node>>
          /\ detected_overhangs = NodeRegions(node, 45)
          /\ overhang_angles = <<node>>
          /\ results_from = <<[node |-> node, threshold |-> 45]>>
    /\ TopoIdle /\ ClassifyIdle /\ SatIdle /\ AutoIdle
    /\ PlaceIdle /\ DanglingIdle /\ WeldIdle /\ CacheIdle
    /\ FilterIdle /\ EdgeIdle /\ ColumnIdle /\ SingleIdle
    /\ EventIdle

\* setSupportMode(mode), also reached through applySupportMode and the SupportMode
\* property
SetSupportMode ==
    /\ tool_calls < MaxCalls
    /\ \E mode \in ModeNamesTried :
          LET after == setSupportMode([support_mode |-> support_mode,
                                       settings |-> support_settings], mode)
          IN  /\ support_mode' = after.support_mode
              /\ support_settings' = after.settings
              /\ last_call' = [op |-> "setSupportMode", mode |-> mode,
                               before |-> support_mode,
                               raised |-> after.raised, emitted |-> after.emitted]
    /\ tool_calls' = tool_calls + 1
    /\ UNCHANGED <<cube_size, detectionVars, selected_node, tool_supports>>
    /\ ToolFrame

\* the setter of one support setting: a different value is stored and the mode
\* becomes "custom"
SetSupportSetting(name, key, values) ==
    /\ tool_calls < MaxCalls
    /\ \E value \in values :
          IF value # support_settings[key]
          THEN /\ support_settings' = [support_settings EXCEPT ![key] = value]
               /\ support_mode' = "custom"
               /\ last_call' = [op |-> name, value |-> value,
                                before |-> support_settings[key],
                                raised |-> "", emitted |-> TRUE]
          ELSE /\ UNCHANGED <<support_settings, support_mode>>
               /\ last_call' = [op |-> name, value |-> value,
                                before |-> support_settings[key],
                                raised |-> "", emitted |-> FALSE]
    /\ tool_calls' = tool_calls + 1
    /\ UNCHANGED <<cube_size, detectionVars, selected_node, tool_supports>>
    /\ ToolFrame

SetSupportPattern == SetSupportSetting("setSupportPattern", "support_pattern", {"grid", "lines"})

SetSupportInfillRate ==
    SetSupportSetting("setSupportInfillRate", "support_infill_rate", {5, 10, 15})

SetSupportLineWidth == SetSupportSetting("setSupportLineWidth", "support_line_width", {30, 40})

SetSupportWallCount == SetSupportSetting("setSupportWallCount", "support_wall_count", {0, 1})

SetSupportInterfaceEnable ==
    SetSupportSetting("setSupportInterfaceEnable", "support_interface_enable", BOOLEAN)

SetSupportRoofEnable ==
    SetSupportSetting("setSupportRoofEnable", "support_roof_enable", BOOLEAN)

SetSupportBottomEnable ==
    SetSupportSetting("setSupportBottomEnable", "support_bottom_enable", BOOLEAN)

\* createSupportForOverhangs()
CreateSupportForOverhangs ==
    /\ tool_calls < MaxCalls
    /\ IF selected_node = << >> \/ detected_overhangs = << >>
       THEN UNCHANGED <<supportVars, tool_supports>>
       ELSE LET after == SupportLoop([support_mode |-> support_mode,
                                      settings |-> support_settings,
                                      cube_size |-> cube_size,
                                      supports |-> tool_supports],
                                     detected_overhangs, 1, selected_node[1],
                                     results_from, overhang_threshold)
            IN  /\ support_mode' = after.support_mode
                /\ support_settings' = after.settings
                /\ cube_size' = after.cube_size
                /\ tool_supports' = after.supports
    /\ last_call' = Call("createSupportForOverhangs", "", FALSE)
    /\ tool_calls' = tool_calls + 1
    /\ UNCHANGED <<detectionVars, selected_node>>
    /\ ToolFrame

SupportNext ==
    \/ SetSupportMode
    \/ SetSupportPattern
    \/ SetSupportInfillRate
    \/ SetSupportLineWidth
    \/ SetSupportWallCount
    \/ SetSupportInterfaceEnable
    \/ SetSupportRoofEnable
    \/ SetSupportBottomEnable
    \/ CreateSupportForOverhangs

SpecSupport == SupportInit /\ [][SupportNext]_vars

\* C23: every volume createSupportForOverhangs creates for a tip region carries the
\* settings of the structural preset and every volume it creates for a boundary
\* region carries the settings of the stability preset, whatever the support mode
\* and the support settings were before the call.
C23_TipStructuralBoundaryStability ==
    \A k \in DOMAIN tool_supports :
        tool_supports[k].kind = "volume" =>
            tool_supports[k].volume.settings =
                SUPPORT_MODE_SETTINGS[IF tool_supports[k].region_type = "tip"
                                      THEN "structural" ELSE "stability"]

SetterNames ==
    {"setSupportPattern", "setSupportInfillRate", "setSupportLineWidth",
     "setSupportWallCount", "setSupportInterfaceEnable", "setSupportRoofEnable",
     "setSupportBottomEnable"}

\* C27: after any sequence of setSupportMode, setter and createSupportForOverhangs
\* calls, a support mode of "structural" or "stability" comes with the seven
\* settings of that mode's entry in SUPPORT_MODE_SETTINGS, and a setter called with
\* a value different from the current one leaves the mode "custom".
C27_PresetModesCarryTheirSettings ==
    /\ support_mode \in {"structural", "stability"} =>
           support_settings = SUPPORT_MODE_SETTINGS[support_mode]
    /\ (last_call.op \in SetterNames /\ last_call.value # last_call.before) =>
           support_mode = "custom"

\* C30: setSupportMode called with one of the four modes of getSupportModes while
\* another mode is active does not raise, leaves that mode active and emits
\* propertyChanged; called with a name that is not a key of SUPPORT_MODE_SETTINGS
\* it changes nothing.
C30_SetSupportModeSwitches ==
    [][(last_call'.op = "setSupportMode" /\ tool_calls' = tool_calls + 1) =>
           /\ (last_call'.mode \in {"structural", "stability", "wing", "custom"}
                  /\ last_call'.mode # support_mode) =>
                 /\ last_call'.raised = ""
                 /\ support_mode' = last_call'.mode
                 /\ last_call'.emitted
           /\ last_call'.mode \notin ModeNames =>
                 /\ UNCHANGED <<supportVars, detectionVars, selected_node, tool_supports>>
                 /\ ~last_call'.emitted]_vars


(***************************************************************************)
(* The overhang threshold, the selection and the cached detection results  *)
(***************************************************************************)
\* what the host's selection can be: nothing, or one node of the scene
Selections == {<< >>} \cup {<<node>> : node \in SceneNodes}

CustomSupportTypes == {"auto", "edge_rail", "tip_column"}

\* setOverhangThreshold without lines 3862-3863
setOverhangThresholdKeepsResults(s, value) ==
    IF value # s.overhang_threshold
    THEN [s EXCEPT !.overhang_threshold = value, !.emitted = TRUE]
    ELSE [s EXCEPT !.emitted = FALSE]

\* setOverhangThreshold(value) on the threshold and the cached results s
setOverhangThreshold(s, value) ==
    IF value # s.overhang_threshold
    THEN [overhang_threshold |-> value, detected_overhangs |-> << >>,
          overhang_angles |-> << >>, results_from |-> << >>, emitted |-> TRUE]
    ELSE [s EXCEPT !.emitted = FALSE]

\* len(self._detected_overhangs)
getDetectedOverhangCount == Len(detected_overhangs)

\* the tool after __init__: nothing is selected when the plugin is loaded
DetectInit ==
    /\ ToolConstructed
    /\ selected_node = << >>
    /\ detected_overhangs = << >>
    /\ overhang_angles = << >>
    /\ results_from = << >>
    /\ TopoIdle /\ ClassifyIdle /\ SatIdle /\ AutoIdle
    /\ PlaceIdle /\ DanglingIdle /\ WeldIdle /\ CacheIdle
    /\ FilterIdle /\ EdgeIdle /\ ColumnIdle /\ SingleIdle
    /\ EventIdle

\* the host's selection changes to another node or to nothing
SelectionChanges ==
    /\ \E selection \in Selections :
          /\ selection # selected_node
          /\ selected_node' = selection
    /\ UNCHANGED <<supportVars, detectionVars, last_call, tool_supports, tool_calls>>
    /\ ToolFrame

\* setOverhangThreshold(value), also reached through the OverhangThreshold property
SetOverhangThreshold ==
    /\ tool_calls < MaxCalls
    /\ \E value \in OverhangThresholds :
          LET after == setOverhangThreshold(
                           [overhang_threshold |-> overhang_threshold,
                            detected_overhangs |-> detected_overhangs,
                            overhang_angles |-> overhang_angles,
                            results_from |-> results_from,
                            emitted |-> FALSE], value)
          IN  /\ overhang_threshold' = after.overhang_threshold
              /\ detected_overhangs' = after.detected_overhangs
              /\ overhang_angles' = after.overhang_angles
              /\ results_from' = after.results_from
              /\ last_call' = [op |-> "setOverhangThreshold", value |-> value,
                               before |-> overhang_threshold,
                               raised |-> "", emitted |-> after.emitted]
    /\ tool_calls' = tool_calls + 1
    /\ UNCHANGED <<supportVars, selected_node, tool_supports>>
    /\ ToolFrame

\* detectOverhangsOnSelection(): returns before touching the results when nothing
\* is selected or the selected node has no mesh data
DetectOverhangsOnSelection ==
    /\ tool_calls < MaxCalls
    /\ IF selected_node = << >>
       THEN /\ UNCHANGED detectionVars
            /\ last_call' = Call("detectOverhangsOnSelection", "", FALSE)
       ELSE IF ~NodeHasMeshData(selected_node[1])
       THEN /\ UNCHANGED detectionVars
            /\ last_call' = Call("detectOverhangsOnSelection", "", FALSE)
       ELSE /\ overhang_angles' = selected_node
            /\ detected_overhangs' = NodeRegions(selected_node[1], overhang_threshold)
            /\ results_from' = <<[node |-> selected_node[1],
                                  threshold |-> overhang_threshold]>>
            /\ UNCHANGED overhang_threshold
            /\ last_call' = Call("detectOverhangsOnSelection", "", TRUE)
    /\ tool_calls' = tool_calls + 1
    /\ UNCHANGED <<supportVars, selected_node, tool_supports>>
    /\ ToolFrame

\* the guards and the loop shared by createCustomSupportMesh and
\* createCustomSupportMeshV2
CreateCustom(name) ==
    /\ tool_calls < MaxCalls
    /\ \E support_type \in CustomSupportTypes :
          /\ IF selected_node = << >> \/ detected_overhangs = << >>
             THEN UNCHANGED tool_supports
             ELSE IF ~NodeHasMeshData(selected_node[1])
             THEN UNCHANGED tool_supports
             ELSE tool_supports' = CustomLoop(tool_supports, detected_overhangs, 1,
                                              support_type, selected_node[1],
                                              results_from, overhang_threshold)
          /\ last_call' = [op |-> name, support_type |-> support_type,
                           raised |-> "", emitted |-> FALSE]
    /\ tool_calls' = tool_calls + 1
    /\ UNCHANGED <<supportVars, detectionVars, selected_node>>
    /\ ToolFrame

CreateCustomSupportMesh == CreateCustom("createCustomSupportMesh")

\* createCustomSupportMeshV2(support_type) as a whole, on the cached results
CreateCustomSupportMeshV2OnResults == CreateCustom("createCustomSupportMeshV2")

DetectNext ==
    \/ SelectionChanges
    \/ SetOverhangThreshold
    \/ DetectOverhangsOnSelection
    \/ CreateSupportForOverhangs
    \/ CreateCustomSupportMesh
    \/ CreateCustomSupportMeshV2OnResults

SpecDetect == DetectInit /\ [][DetectNext]_vars

CreateNames ==
    {"createSupportForOverhangs", "createCustomSupportMesh", "createCustomSupportMeshV2"}

\* C24: after setOverhangThreshold was called with a value different from the
\* current one DetectedOverhangCount is 0; cached results are always those of a
\* detection run at the current threshold, and every support was created from
\* results detected at the threshold in force when it was created, so the three
\* create operations create nothing between a change of the threshold and the next
\* detection run.
C24_ThresholdChangeClearsResults ==
    /\ (last_call.op = "setOverhangThreshold" /\ last_call.value # last_call.before) =>
           getDetectedOverhangCount = 0
    /\ detected_overhangs # << >> =>
           /\ results_from # << >>
           /\ results_from[1].threshold = overhang_threshold
    /\ \A k \in DOMAIN tool_supports :
           /\ tool_supports[k].made_from # << >>
           /\ tool_supports[k].made_from[1].threshold = tool_supports[k].threshold_then

\* supports were created at 45 degrees, the threshold was then changed to 60
\* degrees, and a create operation called after that created nothing although the
\* selected node has an overhang region at 60 degrees
C24_Witness ==
    /\ last_call.op \in CreateNames
    /\ overhang_threshold = 60
    /\ detected_overhangs = << >>
    /\ selected_node # << >>
    /\ NodeRegions(selected_node[1], 60) # << >>
    /\ tool_supports # << >>
    /\ \A k \in DOMAIN tool_supports : tool_supports[k].threshold_then = 45

\* C28: every support was created from the results of a detection run on the node
\* it was created for, the node selected at the time of the create call.
C28_SupportsFromSelectedObject ==
    \A k \in DOMAIN tool_supports :
        /\ tool_supports[k].made_from # << >>
        /\ tool_supports[k].made_from[1].node = tool_supports[k].volume.parent


(***************************************************************************)
(* Left presses, selection changes and the click modes                     *)
(***************************************************************************)
\* what the selection pass finds under the cursor: nothing, a printable model, an
\* anti_overhang_mesh, or a support / infill / cutting mesh
PickedNodes == {"none", "model", "eraser", "modifier"}

\* what a handled press did to the meshes of the scene
SceneEffect(handled) ==
    CASE handled = "removed" -> "removed"
      [] handled = "created" -> "added"
      [] handled \in {"single", "auto"} -> "detection"
      [] OTHER -> "unchanged"

\* event without line 579
eventKeepsSkipPress(s, ctrl, picked) ==
    LET handled ==
            IF ctrl THEN "translate_tool"
            ELSE IF s.skip_press THEN "skipped"
            ELSE IF picked = "none" THEN "no_object"
            ELSE IF s.export_mode THEN "export"
            ELSE IF s.single_region THEN "single"
            ELSE IF s.auto_detect THEN "auto"
            ELSE IF picked = "eraser" THEN "removed"
            ELSE IF picked = "modifier" THEN "ignored"
            ELSE "created"
    IN  [skip_press |-> s.skip_press,
         handled |-> handled,
         scene |-> SceneEffect(handled)]

\* event(event) for a left press with the tools enabled, on the flags s
event(s, ctrl, picked) ==
    LET handled ==
            IF ctrl THEN "translate_tool"
            ELSE IF s.skip_press THEN "skipped"
            ELSE IF picked = "none" THEN "no_object"
            ELSE IF s.export_mode THEN "export"
            ELSE IF s.single_region THEN "single"
            ELSE IF s.auto_detect THEN "auto"
            ELSE IF picked = "eraser" THEN "removed"
            ELSE IF picked = "modifier" THEN "ignored"
            ELSE "created"
    IN  [skip_press |-> IF ctrl THEN s.skip_press ELSE FALSE,
         handled |-> handled,
         scene |-> SceneEffect(handled)]

\* setAutoDetect without lines 506-508
setAutoDetectKeepsSingle(s, value) ==
    IF value # s.auto_detect THEN [s EXCEPT !.auto_detect = value] ELSE s

\* setAutoDetect(value) on the two flags s
setAutoDetect(s, value) ==
    IF value # s.auto_detect
    THEN [auto_detect |-> value,
          single_region |-> IF value THEN FALSE ELSE s.single_region]
    ELSE s

\* setSingleRegion(value) on the two flags s
setSingleRegion(s, value) ==
    IF value # s.single_region
    THEN [single_region |-> value,
          auto_detect |-> IF value THEN FALSE ELSE s.auto_detect]
    ELSE s

\* the tool after __init__: nothing is selected when the plugin is loaded
EventInit ==
    /\ has_selection = FALSE
    /\ had_selection = FALSE
    /\ skip_press = FALSE
    /\ timer_active = FALSE
    /\ export_mode = FALSE
    /\ auto_detect = FALSE
    /\ single_region = FALSE
    /\ since_clear = "none"
    /\ click_log = << >>
    /\ TopoIdle /\ ClassifyIdle /\ SatIdle /\ AutoIdle
    /\ PlaceIdle /\ DanglingIdle /\ WeldIdle /\ CacheIdle
    /\ FilterIdle /\ EdgeIdle /\ ColumnIdle /\ SingleIdle
    /\ ToolIdle

\* Selection.selectionChanged -> _onSelectionChanged: the selection is cleared, set,
\* or changed to other objects
OnSelectionChanged ==
    /\ \E now \in BOOLEAN :
          /\ has_selection \/ now
          /\ has_selection' = now
          /\ timer_active' = IF now # had_selection THEN TRUE ELSE timer_active
    /\ UNCHANGED <<had_selection, skip_press, export_mode, auto_detect, single_region,
                   since_clear, click_log>>
    /\ EventFrame

\* the zero-interval single-shot timer fires: _selectionChangeDelay
SelectionChangeDelay ==
    /\ timer_active
    /\ timer_active' = FALSE
    /\ skip_press' = (~has_selection /\ had_selection)
    /\ had_selection' = has_selection
    /\ since_clear' = IF ~has_selection /\ had_selection THEN "fresh"
                      ELSE IF since_clear = "fresh" THEN "stale"
                      ELSE since_clear
    /\ UNCHANGED <<has_selection, export_mode, auto_detect, single_region, click_log>>
    /\ EventFrame

\* event(event) for a left press with the tools enabled
LeftPress ==
    /\ Len(click_log) < MaxClicks
    /\ \E ctrl \in BOOLEAN, picked \in PickedNodes :
          LET after == event([skip_press |-> skip_press, export_mode |-> export_mode,
                              single_region |-> single_region,
                              auto_detect |-> auto_detect], ctrl, picked)
          IN  /\ skip_press' = after.skip_press
              /\ since_clear' = IF ctrl THEN since_clear ELSE "none"
              /\ click_log' = Append(click_log,
                                     [ctrl |-> ctrl, skip_before |-> skip_press,
                                      skip_after |-> after.skip_press,
                                      handled |-> after.handled, scene |-> after.scene,
                                      single_region |-> single_region,
                                      auto_detect |-> auto_detect])
    /\ UNCHANGED <<has_selection, had_selection, timer_active, export_mode,
                   auto_detect, single_region>>
    /\ EventFrame

\* setExportMode(value)
SetExportMode ==
    /\ \E value \in BOOLEAN : export_mode' = value
    /\ UNCHANGED <<has_selection, had_selection, skip_press, timer_active,
                   auto_detect, single_region, since_clear, click_log>>
    /\ EventFrame

\* setAutoDetect(value), also reached through the AutoDetect property
SetAutoDetect ==
    /\ \E value \in BOOLEAN :
          LET after == setAutoDetect([auto_detect |-> auto_detect,
                                      single_region |-> single_region], value)
          IN  /\ auto_detect' = after.auto_detect
              /\ single_region' = after.single_region
    /\ UNCHANGED <<has_selection, had_selection, skip_press, timer_active,
                   export_mode, since_clear, click_log>>
    /\ EventFrame

\* setSingleRegion(value), also reached through the SingleRegion property
SetSingleRegion ==
    /\ \E value \in BOOLEAN :
          LET after == setSingleRegion([auto_detect |-> auto_detect,
                                        single_region |-> single_region], value)
          IN  /\ auto_detect' = after.auto_detect
              /\ single_region' = after.single_region
    /\ UNCHANGED <<has_selection, had_selection, skip_press, timer_active,
                   export_mode, since_clear, click_log>>
    /\ EventFrame

EventNext ==
    \/ OnSelectionChanged
    \/ SelectionChangeDelay
    \/ LeftPress
    \/ SetExportMode
    \/ SetAutoDetect
    \/ SetSingleRegion

SpecEvent == EventInit /\ [][EventNext]_vars


\* C25 (as stated): once the timer has seen the selection cleared, the skip flag stays
\* set until a left press has reached it, so that the next left press adds or
\* removes no mesh and only resets the flag; the flag is set only while the last
\* observed selection state is `no selection'.
C25_NextPressAfterClearSkipped ==
    /\ since_clear # "none" => skip_press
    /\ skip_press => ~had_selection

\* C25 (amended): the skip flag is set exactly from the timer run that saw the
\* selection cleared until the next run of the timer or the next left press without
\* Ctrl, and only while the last observed selection state is `no selection'; a left
\* press without Ctrl that finds the flag set adds or removes no mesh and only
\* resets the flag, and one that finds it reset is handled normally.
C25_SkipFlagFollowsLastTimerRun ==
    /\ skip_press <=> since_clear = "fresh"
    /\ skip_press => ~had_selection
    /\ \A k \in DOMAIN click_log :
          LET press == click_log[k]
          IN  /\ (~press.ctrl /\ press.skip_before) =>
                     /\ press.handled = "skipped"
                     /\ press.scene = "unchanged"
                     /\ ~press.skip_after
              /\ (~press.ctrl /\ ~press.skip_before) =>
                     /\ press.handled # "skipped"
                     /\ ~press.skip_after
              /\ (k > 1 /\ ~press.ctrl /\ click_log[k - 1].handled = "skipped"
                    /\ ~press.skip_before) =>
                     press.handled \in {"no_object", "export", "single", "auto",
                                        "removed", "ignored", "created"}

\* the selection was cleared, the press that followed was skipped and the press
\* after that created a mesh, with no selection all along
C25_Witness ==
    /\ Len(click_log) = 2
    /\ click_log[1].handled = "skipped"
    /\ click_log[2].handled = "created"
    /\ click_log[2].scene = "added"
    /\ ~has_selection /\ ~had_selection /\ ~skip_press
    /\ since_clear = "none"

\* C26: auto-detect mode and single-region mode are never both enabled, and a press
\* handed to one of the two detections found that mode enabled and the other
\* disabled.
C26_DetectionModesExclusive ==
    /\ ~(auto_detect /\ single_region)
    /\ \A k \in DOMAIN click_log :
          /\ click_log[k].handled = "single" =>
                 click_log[k].single_region /\ ~click_log[k].auto_detect
          /\ click_log[k].handled = "auto" =>
                 click_log[k].auto_detect /\ ~click_log[k].single_region

\* a press was handed to the single-region detection, auto-detect was then enabled
\* and the next press was handed to the automatic detection
C26_Witness ==
    /\ Len(click_log) = 2
    /\ click_log[1].handled = "single"
    /\ click_log[2].handled = "auto"
    /\ auto_detect /\ ~single_region


(***************************************************************************)
(* The box of a region and the collision check of the automatic detection  *)
(* (lines 3094-3105)                                                       *)
(***************************************************************************)
RECURSIVE CoordSum(_, _)
CoordSum(points, a) ==
    IF points = {} THEN 0
    ELSE LET p == CHOOSE q \in points : TRUE
         IN  p[a] + CoordSum(points \ {p}, a)

\* the sum over the points of (n * p[a] - sa) * (n * p[b] - sb): n * n * (n - 1)
\* times the entry (a, b) of numpy.cov of the centred points
RECURSIVE CovSum(_, _, _, _)
CovSum(points, all, a, b) ==
    IF points = {} THEN 0
    ELSE LET p == CHOOSE q \in points : TRUE
             n == Cardinality(all)
         IN  (n * p[a] - CoordSum(all, a)) * (n * p[b] - CoordSum(all, b))
             + CovSum(points \ {p}, all, a, b)

\* 5 times the unit vector of world axis a
UnitAxis(a) == [k \in 1 .. 3 |-> IF k = a THEN 5 ELSE 0]

\* calculate_obb_pca(vertices) for points whose covariance matrix is diagonal with
\* three different entries: numpy.linalg.eigh then returns the world axes in
\* ascending order of variance
calculate_obb_pca(points) ==
    IF points = {}
    THEN [center |-> <<0, 0, 0>>, extents |-> <<0, 0, 0>>,
          rotation |-> <<UnitAxis(1), UnitAxis(2), UnitAxis(3)>>]
    ELSE LET n == Cardinality(points)
             variance == [a \in 1 .. 3 |-> CovSum(points, points, a, a)]
             order == CHOOSE o \in [1 .. 3 -> 1 .. 3] :
                          variance[o[1]] < variance[o[2]] /\ variance[o[2]] < variance[o[3]]
             projected == [a \in 1 .. 3 |-> {n * p[a] - CoordSum(points, a) : p \in points}]
             min_projections == [a \in 1 .. 3 |-> SetMin(projected[a])]
             max_projections == [a \in 1 .. 3 |-> SetMax(projected[a])]
         IN  [center |-> [a \in 1 .. 3 |->
                              (2 * CoordSum(points, a)
                               + min_projections[a] + max_projections[a]) \div (2 * n)],
              extents |-> [k \in 1 .. 3 |->
                               (max_projections[order[k]] - min_projections[order[k]])
                                   \div (2 * n)],
              rotation |-> [k \in 1 .. 3 |-> UnitAxis(order[k])]]

\* vertices_local[numpy.unique(indices[region_faces_for_bounds].flatten())]
RegionPoints(triangles, faces) ==
    UNION {{triangles[f][1], triangles[f][2], triangles[f][3]} : f \in faces}

\* a flat rectangular overhang, width by depth, at height level: two faces
FlatRegion(width, depth, level) ==
    << << <<0, level, 0>>, <<width, level, 0>>, <<width, level, depth>> >>,
       << <<0, level, 0>>, <<width, level, depth>>, <<0, level, depth>> >> >>

NeighbourNames == <<"front_wall", "side_wall", "corner", "roof", "strut">>

\* faces around the region: walls that rise from two of its boundary edges, a face
\* that shares one corner vertex, a roof well above it, and a strut that passes
\* through its middle
Neighbour(name, width, depth, level) ==
    CASE name = "front_wall" ->
             << <<0, level, 0>>, <<width, level, 0>>, <<width, level + 2, 0>> >>
      [] name = "side_wall" ->
             << <<width, level, 0>>, <<width, level, depth>>, <<width, level + 2, depth>> >>
      [] name = "corner" ->
             << <<width, level, depth>>, <<width + 2, level + 2, depth>>,
                <<width, level + 2, depth + 2>> >>
      [] name = "roof" ->
             << <<0, level + 4, 0>>, <<width, level + 4, 0>>, <<width, level + 4, depth>> >>
      [] name = "strut" ->
             << <<1, level - 1, 1>>, <<1, level + 1, 1>>, <<2, level + 1, 1>> >>

RECURSIVE NeighbourFaces(_, _, _, _, _)
NeighbourFaces(present, k, width, depth, level) ==
    IF k > Len(NeighbourNames) THEN << >>
    ELSE (IF NeighbourNames[k] \in present
          THEN <<Neighbour(NeighbourNames[k], width, depth, level)>> ELSE << >>)
         \o NeighbourFaces(present, k + 1, width, depth, level)

RegionShapes == {<<4, 2>>, <<2, 4>>, <<6, 2>>, <<6, 4>>}

\* a region that has passed the filters and the extent solver, in its mesh: the
\* region's faces come first
RegionBoxInit ==
    /\ \E shape \in RegionShapes, level \in {2, 4},
          present \in SUBSET {NeighbourNames[k] : k \in DOMAIN NeighbourNames} :
          LET faces == FlatRegion(shape[1], shape[2], level)
                       \o NeighbourFaces(present, 1, shape[1], shape[2], level)
          IN  mesh_triangles = [i \in 0 .. Len(faces) - 1 |-> faces[i + 1]]
    /\ excluded_faces = {0, 1}
    /\ obb = calculate_obb_pca({})
    /\ collision = FALSE
    /\ satStep = "region"
    /\ TopoIdle /\ ClassifyIdle /\ AutoIdle /\ PlaceIdle
    /\ DanglingIdle /\ WeldIdle /\ CacheIdle /\ FilterIdle
    /\ EdgeIdle /\ ColumnIdle /\ SingleIdle /\ ToolIdle
    /\ EventIdle

\* obb = geometry_utils.calculate_obb_pca(region_vertices_local)
CalculateObbPca ==
    /\ satStep = "region"
    /\ obb' = calculate_obb_pca(RegionPoints(mesh_triangles, excluded_faces))
    /\ satStep' = "input"
    /\ UNCHANGED <<mesh_triangles, excluded_faces, collision>>
    /\ SatFrame

\* lines 3099-3105: a colliding region is skipped, any other gets its blocker
CreateBlockerUnlessCollision ==
    /\ satStep = "checked"
    /\ satStep' = IF collision THEN "skipped" ELSE "created"
    /\ UNCHANGED <<obb, mesh_triangles, excluded_faces, collision>>
    /\ SatFrame

RegionBoxNext ==
    \/ CalculateObbPca
    \/ CheckObbMeshCollision
    \/ CreateBlockerUnlessCollision

SpecRegionBox == RegionBoxInit /\ [][RegionBoxNext]_vars

\* the region's rectangle, from its own faces
RegionSpan(a) ==
    LET coords == {p[a] : p \in RegionPoints(mesh_triangles, excluded_faces)}
    IN  [lo |-> SetMin(coords), hi |-> SetMax(coords)]

\* the face lies on or above the region's plane and meets it in at most one
\* boundary line of the region's rectangle, or lies on or below it and does the
\* same: what it has in common with the box is part of the region's boundary
MerelyTouches(triangle) ==
    LET level == RegionSpan(2).lo
        corners == {triangle[k] : k \in 1 .. 3}
        on_plane == {p \in corners : p[2] = level}
    IN  /\ \/ \A p \in corners : p[2] >= level
           \/ \A p \in corners : p[2] <= level
        /\ on_plane # corners
        /\ \/ on_plane = {}
           \/ \E a \in {1, 3} :
                 \/ \A p \in on_plane : p[a] = RegionSpan(a).lo
                 \/ \A p \in on_plane : p[a] = RegionSpan(a).hi

\* C29: a region whose box holds nothing but the region's own faces, the other
\* faces of the mesh merely touching it along the region's boundary edges or
\* vertices or lying apart from it, is not rejected by the collision check and
\* receives its blocker.
C29_TouchingNeighboursDoNotReject ==
    (satStep \in {"created", "skipped"}
       /\ \A i \in DOMAIN mesh_triangles \ excluded_faces :
              MerelyTouches(mesh_triangles[i])) =>
        satStep = "created"

====
